---- MODULE Spec2Model ----
(***************************************************************************)
(* Day 12 of dwhensley/aoc-2022: read_heightmap -> HeightMap::to_graph ->  *)
(* shortest_path, driven by main and by the two unit tests                 *)
(* (src/day12/src/main.rs).                                                *)
(*                                                                         *)
(* Indices are 0-based as in the source; a TLA+ sequence s holds the       *)
(* source's element i at s[i + 1].  Option<T> is a sequence of length      *)
(* at most one: None is <<>> and Some(x) is <<x>>.  A char is its code     *)
(* point, a text line a sequence of chars.                                 *)
(*                                                                         *)
(* Day 5 of the same repository: Move::execute_9000, Move::execute_9001    *)
(* and the two loops of main over the moves (src/day5/src/main.rs).        *)
(*                                                                         *)
(* Day 9 of the same repository: SimState<N> with its four single head     *)
(* steps, advance and update_tail_loc (src/day9/src/main.rs).              *)
(***************************************************************************)
EXTENDS Integers, Sequences, FiniteSets, TLC

VARIABLES
    driver,      \* which entry point runs: "main", "test_part_one", "test_part_two", "call", "day5_main", "day9_sim"
    pc,          \* position of the entry point
    input,       \* the lines of the input file
    start_loc,   \* main: start
    end_loc,     \* main: end
    hmap,        \* main: hmap (the grid of a HeightMap)
    fail,        \* how the run ended abnormally: Err(..) or a panic, None while it has not
    adj_list,    \* main: adj_list
    sp_start,    \* shortest_path: start
    sp_end,      \* shortest_path: end
    ra,          \* where the running shortest_path call returns to
    dist,        \* shortest_path: dist
    heap,        \* shortest_path: heap, the States in the BinaryHeap
    ret,         \* the value the last shortest_path call returned
    p1,          \* main: p1 before ok_or_else (the Option), None until computed
    start_locs,  \* main: start_locs
    it,          \* main: how many elements of start_locs.iter() are consumed
    p2,          \* main: the running minimum of .min(), an Option
    suspended,   \* the locals of a second shortest_path invocation while it does not run
    stacks_p1,   \* day5 main: stacks_p1
    stacks_p2,   \* day5 main: stacks_p2
    moves,       \* day5 main: moves
    m_idx,       \* day5 main: how many elements of moves.iter() the running loop consumed
    extracted,   \* shortest_path: what heap.pop() has returned so far, each State with dist[position] as it was then
    locs,        \* day9 SimState: locs, the knots from the head to the tail
    tl_loc_set,  \* day9 SimState: tl_loc_set
    steps        \* day9: the single head steps made so far, in order

vars == <<driver, pc, input, start_loc, end_loc, hmap, fail, adj_list,
          sp_start, sp_end, ra, dist, heap, ret, p1, start_locs, it, p2,
          suspended, stacks_p1, stacks_p2, moves, m_idx, extracted,
          locs, tl_loc_set, steps>>

search_vars == <<sp_start, sp_end, ra, dist, heap, ret, extracted>>
load_vars == <<input, start_loc, end_loc, hmap, adj_list>>
main_vars == <<p1, start_locs, it, p2>>
day5_vars == <<stacks_p1, stacks_p2, moves, m_idx>>
day9_vars == <<locs, tl_loc_set, steps>>

-----------------------------------------------------------------------------
(* Bounds of the model *)

\* size of a small input text: its chars plus its lines
MaxTextSize == 5
\* rows and columns of a letter grid given to to_graph
MaxSide == 2
\* columns of a two-row grid whose graph is searched
MaxSearchCols == 3
\* nodes of a hand-made adjacency list
MaxNodes == 3
\* edges of a hand-made adjacency list
MaxEdges == 3
\* chars of the sample map that an input may change
MaxEdits == 0
\* edges of an adjacency list that two invocations share
MaxSharedEdges == 2
\* crates on the stacks of day5
MaxCrates == 3
\* edges of a hand-made adjacency list whose edges have costs of their own
MaxWeightedEdges == 2
\* knots of a rope of day9 (the N of SimState<N>)
MaxKnots == 3
\* single head steps of a rope of day9
MaxSteps == 5

-----------------------------------------------------------------------------
(* Program constants *)

CharS == 83
CharE == 69
b_a == 97
b_z == 122
\* usize::MAX, the "infinite" distance.  TLC's integers are 32 bits wide, so the
\* top of the model's integers stands for the top of usize; every cost of the
\* model is below the number of nodes.
usize_MAX == 2147483647

None == <<>>
Some(x) == <<x>>
is_some(o) == Len(o) = 1
is_none(o) == Len(o) = 0
unwrap(o) == o[1]

-----------------------------------------------------------------------------
(* read_heightmap *)

\* variant: the identifier is the column, so it restarts in every row
Location_new_ColumnId(node_idx, grid_idx) == [node_idx |-> grid_idx[2], grid_idx |-> grid_idx]
Location_new(node_idx, grid_idx) == [node_idx |-> node_idx, grid_idx |-> grid_idx]

\* variant: the upper end of the lower-case range is one too high
is_ascii_alphabetic_OffByOne(c) == (65 <= c /\ c <= 90) \/ (97 <= c /\ c <= 123)
is_ascii_alphabetic(c) == (65 <= c /\ c <= 90) \/ (97 <= c /\ c <= 122)

\* c as u8
\* variant: the elevation is taken relative to 'a'
as_u8_Relative(c) == (c - 97) % 256
as_u8(c) == c % 256

\* One pass of the inner loop body (lines 172-186) on char c at (ridx, cidx).
\* st holds the locals: row, start_loc, end_loc, node_idx, and err once the
\* function has returned Err.
read_char(st, ridx, cidx, c) ==
    IF ~is_ascii_alphabetic(c)
    THEN [st EXCEPT !.err = Some(c)]
    ELSE LET st1 ==
                 IF c = CharS
                 THEN LET l == Location_new(st.node_idx, <<ridx, cidx>>)
                      IN  [st EXCEPT !.start_loc = l, !.row = Append(@, <<l, b_a>>)]
                 ELSE IF c = CharE
                 THEN LET l == Location_new(st.node_idx, <<ridx, cidx>>)
                      IN  [st EXCEPT !.end_loc = l, !.row = Append(@, <<l, b_z>>)]
                 ELSE [st EXCEPT !.row =
                          Append(@, <<Location_new(st.node_idx, <<ridx, cidx>>), as_u8(c)>>)]
         IN  [st1 EXCEPT !.node_idx = @ + 1]

RECURSIVE read_line(_, _, _, _)
read_line(line, ridx, cidx, st) ==
    IF cidx >= Len(line) \/ is_some(st.err)
    THEN st
    ELSE read_line(line, ridx, cidx + 1, read_char(st, ridx, cidx, line[cidx + 1]))

RECURSIVE read_lines(_, _, _)
read_lines(lines, ridx, st) ==
    IF ridx >= Len(lines) \/ is_some(st.err)
    THEN st
    ELSE LET r == read_line(lines[ridx + 1], ridx, 0, [st EXCEPT !.row = <<>>])
         IN  read_lines(lines, ridx + 1,
                        IF is_some(r.err) THEN r ELSE [r EXCEPT !.grid = Append(@, r.row)])

\* Result<(Location, Location, HeightMap)>: Ok carries the triple, Err the
\* message's argument (the char the message names).
read_heightmap(lines) ==
    LET st == read_lines(lines, 0,
                  [grid |-> <<>>, row |-> <<>>,
                   start_loc |-> Location_new(0, <<0, 0>>),
                   end_loc |-> Location_new(0, <<0, 0>>),
                   node_idx |-> 0, err |-> None])
    IN  IF is_some(st.err)
        THEN [tag |-> "Err", msg |-> "Expected all ASCII alphabetic types, got", arg |-> unwrap(st.err)]
        ELSE [tag |-> "Ok", start |-> st.start_loc, end |-> st.end_loc, grid |-> st.grid]

-----------------------------------------------------------------------------
(* HeightMap::to_graph *)

Edge(node, cost) == [node |-> node, cost |-> cost]

\* the climb rule: nb as isize - curr as isize <= 1
\* variants: the absolute difference is bounded; the bound is strict
Climbable_Symmetric(curr, nb) == nb - curr <= 1 /\ curr - nb <= 1
Climbable_Strict(curr, nb) == nb - curr < 1
\* variant: only a step down is allowed
Climbable_OnlyDown(curr, nb) == nb < curr
\* variant: a climb of two is allowed
Climbable_TwoUp(curr, nb) == nb - curr <= 2
Climbable(curr, nb) == nb - curr <= 1

\* a - b on usize: the debug build panics when b > a (attempt to subtract with
\* overflow), the release build wraps to a + 2^64 - b, which is above every
\* index the model compares it with.
usize_sub(a, b) == IF a >= b THEN a - b ELSE usize_MAX

InGrid(grid, r, c) == r >= 0 /\ r < Len(grid) /\ c >= 0 /\ c < Len(grid[r + 1])

\* The cells whose grid entry the loop body for (ridx, cidx) reads, in order:
\* up, down, left, right, each under its guard (lines 90, 105, 120, 135).
Probes(grid, ridx, cidx) ==
    (IF ridx > 0 THEN << <<ridx - 1, cidx>> >> ELSE <<>>)
    \o (IF ridx <= usize_sub(Len(grid), 2) THEN << <<ridx + 1, cidx>> >> ELSE <<>>)
    \o (IF cidx > 0 THEN << <<ridx, cidx - 1>> >> ELSE <<>>)
    \o (IF cidx <= usize_sub(Len(grid[ridx + 1]), 2) THEN << <<ridx, cidx + 1>> >> ELSE <<>>)

\* The loop body panics: a guard's subtraction overflows (debug build), or a
\* probe indexes outside the grid (index out of bounds, either build).
CellPanics(grid, ridx, cidx) ==
    \/ Len(grid) < 2
    \/ Len(grid[ridx + 1]) < 2
    \/ \E i \in 1..Len(Probes(grid, ridx, cidx)) :
           ~InGrid(grid, Probes(grid, ridx, cidx)[i][1], Probes(grid, ridx, cidx)[i][2])

RECURSIVE PushEdges(_, _, _, _)
\* nodes after the pushes for probes i.. of the list ps
PushEdges(grid, curr, ps, nodes) ==
    IF ps = <<>>
    THEN nodes
    ELSE LET nb == grid[Head(ps)[1] + 1][Head(ps)[2] + 1]
         IN  PushEdges(grid, curr, Tail(ps),
                       IF Climbable(curr, nb[2])
                       THEN Append(nodes, Edge(nb[1].node_idx, 1))
                       ELSE nodes)

\* nodes as pushed onto graph for the cell (ridx, cidx) (line 150)
CellNodes(grid, ridx, cidx) ==
    PushEdges(grid, grid[ridx + 1][cidx + 1][2], Probes(grid, ridx, cidx), <<>>)

RECURSIVE RowNodes_RightToLeft(_, _, _)
\* variant: the cells of a row push their nodes from the last column to the first
RowNodes_RightToLeft(grid, ridx, cidx) ==
    IF cidx >= Len(grid[ridx + 1])
    THEN <<>>
    ELSE RowNodes_RightToLeft(grid, ridx, cidx + 1) \o << CellNodes(grid, ridx, cidx) >>

RECURSIVE RowNodes(_, _, _)
RowNodes(grid, ridx, cidx) ==
    IF cidx >= Len(grid[ridx + 1])
    THEN <<>>
    ELSE << CellNodes(grid, ridx, cidx) >> \o RowNodes(grid, ridx, cidx + 1)

RECURSIVE GridNodes(_, _)
GridNodes(grid, ridx) ==
    IF ridx >= Len(grid)
    THEN <<>>
    ELSE RowNodes(grid, ridx, 0) \o GridNodes(grid, ridx + 1)

\* to_graph returns the graph, or panics in the first loop body that panics.
to_graph(grid) ==
    IF \E r \in 0..(Len(grid) - 1) : \E c \in 0..(Len(grid[r + 1]) - 1) : CellPanics(grid, r, c)
    THEN [tag |-> "Panic", graph |-> <<>>]
    ELSE [tag |-> "Ok", graph |-> GridNodes(grid, 0)]

\* HeightMap::find_targets
RECURSIVE FlattenGrid(_, _)
FlattenGrid(grid, ridx) ==
    IF ridx >= Len(grid) THEN <<>> ELSE grid[ridx + 1] \o FlattenGrid(grid, ridx + 1)

find_targets(grid, target) ==
    LET cells == FlattenGrid(grid, 0)
        keep(cell) == cell[2] = target
        found == [i \in 1..Len(SelectSeq(cells, keep)) |-> SelectSeq(cells, keep)[i][1]]
    IN  found

-----------------------------------------------------------------------------
(* shortest_path *)

State(cost, position) == [cost |-> cost, position |-> position]

\* impl Ord for State: a.cmp(b) = Greater.  The BinaryHeap is a max-heap on
\* this order: lowest cost first, then highest position.
\* variant: the cost comparison is not reversed, so the highest cost pops first
\* variant: only the position is compared
cmp_Greater_ByPosition(a, b) == a.position > b.position
cmp_Greater_HighCostFirst(a, b) == a.cost > b.cost \/ (a.cost = b.cost /\ a.position > b.position)
cmp_Greater(a, b) == a.cost < b.cost \/ (a.cost = b.cost /\ a.position > b.position)

\* variant: the queue is a stack, pop returns the State pushed last
heap_top_LastPushed(h) == Len(h)

\* The index in heap of the State that heap.pop() returns: one that no other
\* is Greater than.  States that compare Equal are the same State.
heap_top(h) == CHOOSE i \in 1..Len(h) : \A j \in 1..Len(h) : ~cmp_Greater(h[j], h[i])

RemoveAt(s, i) == [k \in 1..(Len(s) - 1) |-> IF k < i THEN s[k] ELSE s[k + 1]]

\* One pass of the for loop (lines 62-69): s holds dist, heap, and panic once
\* dist[nxt.position] has indexed out of bounds.
\* variant: the State is pushed whether or not it improves the table's entry
relax_edge_AlwaysPush(s, cost, edge) ==
    LET nxt == State(cost + edge.cost, edge.node)
    IN  IF nxt.position >= Len(s.dist)
        THEN [s EXCEPT !.panic = TRUE]
        ELSE IF nxt.cost < s.dist[nxt.position + 1]
        THEN [s EXCEPT !.heap = Append(@, nxt), !.dist[nxt.position + 1] = nxt.cost]
        ELSE [s EXCEPT !.heap = Append(@, nxt)]
\* variant: a State that only equals the table's entry is pushed as well
relax_edge_NonStrict(s, cost, edge) ==
    LET nxt == State(cost + edge.cost, edge.node)
    IN  IF nxt.position >= Len(s.dist)
        THEN [s EXCEPT !.panic = TRUE]
        ELSE IF nxt.cost <= s.dist[nxt.position + 1]
        THEN [s EXCEPT !.heap = Append(@, nxt), !.dist[nxt.position + 1] = nxt.cost]
        ELSE s
\* variant: the cost of the popped State is not added to the edge's
relax_edge_EdgeCostOnly(s, cost, edge) ==
    LET nxt == State(edge.cost, edge.node)
    IN  IF nxt.position >= Len(s.dist)
        THEN [s EXCEPT !.panic = TRUE]
        ELSE IF nxt.cost < s.dist[nxt.position + 1]
        THEN [s EXCEPT !.heap = Append(@, nxt), !.dist[nxt.position + 1] = nxt.cost]
        ELSE s
\* variant: the improved State is recorded in dist but not pushed
relax_edge_NoPush(s, cost, edge) ==
    LET nxt == State(cost + edge.cost, edge.node)
    IN  IF nxt.position >= Len(s.dist)
        THEN [s EXCEPT !.panic = TRUE]
        ELSE IF nxt.cost < s.dist[nxt.position + 1]
        THEN [s EXCEPT !.dist[nxt.position + 1] = nxt.cost]
        ELSE s
relax_edge(s, cost, edge) ==
    LET nxt == State(cost + edge.cost, edge.node)
    IN  IF nxt.position >= Len(s.dist)
        THEN [s EXCEPT !.panic = TRUE]
        ELSE IF nxt.cost < s.dist[nxt.position + 1]
        THEN [s EXCEPT !.heap = Append(@, nxt), !.dist[nxt.position + 1] = nxt.cost]
        ELSE s

RECURSIVE relax(_, _, _)
relax(edges, cost, s) ==
    IF edges = <<>> \/ s.panic
    THEN s
    ELSE relax(Tail(edges), cost, relax_edge(s, cost, Head(edges)))

\* variant: the start State is not pushed
Enter_NoPush(st, en, r) ==
    /\ sp_start' = st
    /\ sp_end' = en
    /\ ra' = r
    /\ ret' = None
    /\ extracted' = <<>>
    /\ pc' = "sp_loop"
    /\ fail' = fail
    /\ dist' = [i \in 1..Len(adj_list) |-> IF i = st + 1 THEN 0 ELSE usize_MAX]
    /\ heap' = <<>>

\* variant: the distance table of the previous call is used again when it has
\* the right length
Enter_ReuseDist(st, en, r) ==
    /\ sp_start' = st
    /\ sp_end' = en
    /\ ra' = r
    /\ ret' = None
    /\ extracted' = <<>>
    /\ pc' = "sp_loop"
    /\ fail' = fail
    /\ dist' = IF Len(dist) = Len(adj_list)
               THEN [dist EXCEPT ![st + 1] = 0]
               ELSE [i \in 1..Len(adj_list) |-> IF i = st + 1 THEN 0 ELSE usize_MAX]
    /\ heap' = << State(0, st) >>

\* Lines 45-52 of a call shortest_path(adj_list, st, en) that returns to r.
\* dist[start] = 0 panics when start is no index of adj_list.
Enter(st, en, r) ==
    /\ sp_start' = st
    /\ sp_end' = en
    /\ ra' = r
    /\ ret' = None
    /\ extracted' = <<>>
    /\ IF st >= Len(adj_list)
       THEN /\ pc' = "panicked"
            /\ fail' = Some([tag |-> "Panic", msg |-> "index out of bounds", arg |-> st])
            /\ dist' = [i \in 1..Len(adj_list) |-> usize_MAX]
            /\ heap' = <<>>
       ELSE /\ pc' = "sp_loop"
            /\ fail' = fail
            /\ dist' = [i \in 1..Len(adj_list) |-> IF i = st + 1 THEN 0 ELSE usize_MAX]
            /\ heap' = << State(0, st) >>

\* The body of the while let (lines 55-70) on the locals d (dist) and h (heap)
\* of a call with target en, when heap.pop() returned the State at index i of
\* h.  The result holds the locals afterwards and what the call does next:
\* "loop" (line 54 again), "return" (line 56, with ret) or "panic" (an index out
\* of bounds in line 66).
\* variant: a stale State writes its cost back into dist
loop_body_StaleOverwrites(G, en, d, h, i) ==
    LET top == h[i]
        popped == RemoveAt(h, i)
    IN  IF top.position = en
        THEN [dist |-> d, heap |-> popped, ret |-> Some(top.cost), at |-> "return", arg |-> top.position]
        ELSE IF top.cost > d[top.position + 1]
        THEN [dist |-> [d EXCEPT ![top.position + 1] = top.cost], heap |-> popped, ret |-> None,
              at |-> "loop", arg |-> top.position]
        ELSE LET s == relax(G[top.position + 1], top.cost,
                            [dist |-> d, heap |-> popped, panic |-> FALSE])
             IN  [dist |-> s.dist, heap |-> s.heap, ret |-> None,
                  at |-> IF s.panic THEN "panic" ELSE "loop", arg |-> top.position]
\* variant: the target test looks at the top State without popping it
loop_body_PeekTarget(G, en, d, h, i) ==
    LET top == h[i]
        popped == RemoveAt(h, i)
    IN  IF top.position = en
        THEN [dist |-> d, heap |-> h, ret |-> Some(top.cost), at |-> "return", arg |-> top.position]
        ELSE IF top.cost > d[top.position + 1]
        THEN [dist |-> d, heap |-> popped, ret |-> None, at |-> "loop", arg |-> top.position]
        ELSE LET s == relax(G[top.position + 1], top.cost,
                            [dist |-> d, heap |-> popped, panic |-> FALSE])
             IN  [dist |-> s.dist, heap |-> s.heap, ret |-> None,
                  at |-> IF s.panic THEN "panic" ELSE "loop", arg |-> top.position]
loop_body(G, en, d, h, i) ==
    LET top == h[i]
        popped == RemoveAt(h, i)
    IN  IF top.position = en
        THEN [dist |-> d, heap |-> popped, ret |-> Some(top.cost), at |-> "return", arg |-> top.position]
        ELSE IF top.cost > d[top.position + 1]
        THEN [dist |-> d, heap |-> popped, ret |-> None, at |-> "loop", arg |-> top.position]
        ELSE LET s == relax(G[top.position + 1], top.cost,
                            [dist |-> d, heap |-> popped, panic |-> FALSE])
             IN  [dist |-> s.dist, heap |-> s.heap, ret |-> None,
                  at |-> IF s.panic THEN "panic" ELSE "loop", arg |-> top.position]

\* the State heap.pop() returned, with the entry of dist for its position at
\* that time
Extracted(top, d) == [cost |-> top.cost, position |-> top.position, best |-> d[top.position + 1]]

\* variant: the empty queue does not end the while let
exhausted_KeepLooping ==
    /\ ret' = None
    /\ pc' = pc
    /\ UNCHANGED <<dist, heap, fail, extracted>>

\* heap.pop() returned None: the while let ends and line 72 returns None
exhausted ==
    /\ ret' = None
    /\ pc' = ra
    /\ UNCHANGED <<dist, heap, fail, extracted>>

\* heap.pop() returned the State at index i of heap, and the body ran on it
popped_at(i) ==
    LET b == loop_body(adj_list, sp_end, dist, heap, i)
    IN  /\ dist' = b.dist
        /\ heap' = b.heap
        /\ extracted' = Append(extracted, Extracted(heap[i], dist))
        /\ ret' = IF b.at = "return" THEN b.ret ELSE ret
        /\ pc' = IF b.at = "return" THEN ra ELSE IF b.at = "panic" THEN "panicked" ELSE pc
        /\ fail' = IF b.at = "panic"
                   THEN Some([tag |-> "Panic", msg |-> "index out of bounds", arg |-> b.arg])
                   ELSE fail

\* One evaluation of the while let (line 54) with its body, or line 72.
shortest_path_loop ==
    /\ pc = "sp_loop"
    /\ UNCHANGED <<driver, suspended, day5_vars, day9_vars, load_vars, main_vars, sp_start, sp_end, ra>>
    /\ IF heap = <<>> THEN exhausted ELSE popped_at(heap_top(heap))

\* the indices of the States of heap that have the least cost
MinCost(h) == {i \in 1..Len(h) : \A j \in 1..Len(h) : h[i].cost <= h[j].cost}

\* The while let with another implementation of Ord for State: the cost is
\* compared as in line 27, the secondary key of line 28 is any other, so
\* heap.pop() returns any of the States of least cost.
shortest_path_loop_any_tie ==
    /\ pc = "sp_loop"
    /\ UNCHANGED <<driver, suspended, day5_vars, day9_vars, load_vars, main_vars, sp_start, sp_end, ra>>
    /\ IF heap = <<>> THEN exhausted ELSE \E i \in MinCost(heap) : popped_at(i)

RECURSIVE run(_, _, _, _)
\* the while let from the locals d, h to the end of the call
run(G, en, d, h) ==
    IF h = <<>>
    THEN [dist |-> d, heap |-> h, ret |-> None, at |-> "return", arg |-> 0]
    ELSE LET b == loop_body(G, en, d, h, heap_top(h))
         IN  IF b.at = "loop" THEN run(G, en, b.dist, b.heap) ELSE b

\* shortest_path(G, st, en) as a whole, for st an index of G: its return value
\* is the field ret, its locals when it returns are dist and heap
shortest_path(G, st, en) ==
    run(G, en, [i \in 1..Len(G) |-> IF i = st + 1 THEN 0 ELSE usize_MAX], << State(0, st) >>)

\* A call of shortest_path on its own, with the arguments the state holds.
shortest_path_call ==
    /\ pc = "sp_call"
    /\ Enter(sp_start, sp_end, "returned")
    /\ UNCHANGED <<driver, suspended, day5_vars, day9_vars, load_vars, main_vars>>

\* the locals of a shortest_path invocation and its position
Frame(at, st, en, r, d, h, v, x) ==
    [pc |-> at, sp_start |-> st, sp_end |-> en, ra |-> r, dist |-> d, heap |-> h, ret |-> v,
     extracted |-> x]

\* no second invocation
NoFrame == Frame("none", 0, 0, "returned", <<>>, <<>>, None, <<>>)

\* Two invocations share adj_list by reference (&Vec<Vec<Edge>>, line 44) and
\* own their locals.  The running one is suspended between two of its steps and
\* the other one, which still has steps to make, runs on.
switch ==
    /\ pc \in {"sp_call", "sp_loop", "returned"}
    /\ suspended.pc \in {"sp_call", "sp_loop"}
    /\ suspended' = Frame(pc, sp_start, sp_end, ra, dist, heap, ret, extracted)
    /\ pc' = suspended.pc
    /\ sp_start' = suspended.sp_start
    /\ sp_end' = suspended.sp_end
    /\ ra' = suspended.ra
    /\ dist' = suspended.dist
    /\ heap' = suspended.heap
    /\ ret' = suspended.ret
    /\ extracted' = suspended.extracted
    /\ UNCHANGED <<driver, day5_vars, day9_vars, load_vars, main_vars, fail>>

\* The caller of a returned invocation calls shortest_path once more on the same
\* adj_list, now with the arguments of the other invocation.
shortest_path_call_next ==
    /\ pc = "returned"
    /\ suspended.pc # "none"
    /\ <<sp_start, sp_end>> # <<suspended.sp_start, suspended.sp_end>>
    /\ Enter(suspended.sp_start, suspended.sp_end, "returned")
    /\ UNCHANGED <<driver, suspended, day5_vars, day9_vars, load_vars, main_vars>>

\* shortest_path(&adj_list, a.node_idx, b.node_idx) is called for two cells a,
\* b of the grid adj_list was built from, as lines 196, 203, 221 and 234 call it
shortest_path_call_cells ==
    /\ pc = "part_one"
    /\ Enter(sp_start, sp_end, "returned")
    /\ UNCHANGED <<driver, suspended, day5_vars, day9_vars, load_vars, main_vars>>

-----------------------------------------------------------------------------
(* main, tests::test_part_one, tests::test_part_two *)

\* the values the tests assert
Expect_part_one == 31
Expect_part_two == 29

\* Option<usize>::min of the fold behind Iterator::min
\* variants: the fold sums; the fold keeps the maximum
min_opt_Sum(acc, d) == IF is_none(acc) THEN Some(d) ELSE Some(unwrap(acc) + d)
min_opt_Max(acc, d) == IF is_none(acc) \/ d > unwrap(acc) THEN Some(d) ELSE acc
min_opt(acc, d) == IF is_none(acc) \/ d < unwrap(acc) THEN Some(d) ELSE acc

\* read_heightmap("src/input.txt")? in main, read_heightmap(..).unwrap() in the tests
main_read ==
    /\ pc = "read"
    /\ LET r == read_heightmap(input)
       IN  IF r.tag = "Err"
           THEN /\ pc' = IF driver = "main" THEN "exit_err" ELSE "panicked"
                /\ fail' = Some(r)
                /\ UNCHANGED <<start_loc, end_loc, hmap>>
           ELSE /\ pc' = "to_graph"
                /\ start_loc' = r.start
                /\ end_loc' = r.end
                /\ hmap' = r.grid
                /\ fail' = fail
    /\ UNCHANGED <<driver, suspended, day5_vars, day9_vars, input, adj_list, search_vars, main_vars>>

\* let adj_list = hmap.to_graph();
main_to_graph ==
    /\ pc = "to_graph"
    /\ LET g == to_graph(hmap)
       IN  IF g.tag = "Panic"
           THEN /\ pc' = "panicked"
                /\ fail' = Some([tag |-> "Panic", msg |-> "to_graph", arg |-> 0])
                /\ UNCHANGED adj_list
           ELSE /\ pc' = IF driver = "test_part_two" THEN "find_targets" ELSE "part_one"
                /\ adj_list' = g.graph
                /\ fail' = fail
    /\ UNCHANGED <<driver, suspended, day5_vars, day9_vars, input, start_loc, end_loc, hmap, search_vars, main_vars>>

\* shortest_path(&adj_list, start.node_idx, end.node_idx) of part one is called
main_part_one ==
    /\ pc = "part_one"
    /\ Enter(start_loc.node_idx, end_loc.node_idx, "part_one_ret")
    /\ UNCHANGED <<driver, suspended, day5_vars, day9_vars, load_vars, main_vars>>

\* .ok_or_else(..)? and println! in main; assert_eq!(31, ...unwrap()) in test_part_one
main_part_one_ret ==
    /\ pc = "part_one_ret"
    /\ p1' = ret
    /\ IF is_none(ret)
       THEN /\ pc' = IF driver = "main" THEN "exit_err" ELSE "panicked"
            /\ fail' = Some([tag |-> IF driver = "main" THEN "Err" ELSE "Panic",
                             msg |-> "No path found between",
                             arg |-> <<start_loc, end_loc>>])
       ELSE IF driver = "main"
       THEN /\ pc' = "find_targets"
            /\ fail' = fail
       ELSE IF unwrap(ret) = Expect_part_one
       THEN /\ pc' = "done"
            /\ fail' = fail
       ELSE /\ pc' = "panicked"
            /\ fail' = Some([tag |-> "Panic", msg |-> "assertion failed", arg |-> unwrap(ret)])
    /\ UNCHANGED <<driver, suspended, day5_vars, day9_vars, load_vars, search_vars, start_locs, it, p2>>

\* let start_locs = hmap.find_targets(b'a');
main_find_targets ==
    /\ pc = "find_targets"
    /\ start_locs' = find_targets(hmap, b_a)
    /\ it' = 0
    /\ p2' = None
    /\ pc' = "part_two"
    /\ UNCHANGED <<driver, suspended, day5_vars, day9_vars, load_vars, search_vars, fail, p1>>

\* start_locs.iter() yields its next element and filter_map's closure calls
\* shortest_path(&adj_list, start.node_idx, end.node_idx)
main_part_two_next ==
    /\ pc = "part_two"
    /\ it < Len(start_locs)
    /\ it' = it + 1
    /\ Enter(start_locs[it + 1].node_idx, end_loc.node_idx, "part_two_ret")
    /\ UNCHANGED <<driver, suspended, day5_vars, day9_vars, load_vars, p1, start_locs, p2>>

\* filter_map drops None, min() folds Some(d) into its minimum
\* variant: a candidate without a path is unwrapped instead of dropped
main_part_two_ret_FailOnNone ==
    /\ pc = "part_two_ret"
    /\ IF is_none(ret)
       THEN /\ pc' = "panicked"
            /\ fail' = Some([tag |-> "Panic", msg |-> "called Option::unwrap() on a None value",
                             arg |-> 0])
            /\ p2' = p2
       ELSE /\ pc' = "part_two"
            /\ fail' = fail
            /\ p2' = min_opt(p2, unwrap(ret))
    /\ UNCHANGED <<driver, suspended, day5_vars, day9_vars, load_vars, search_vars, p1, start_locs, it>>
main_part_two_ret ==
    /\ pc = "part_two_ret"
    /\ p2' = IF is_none(ret) THEN p2 ELSE min_opt(p2, unwrap(ret))
    /\ pc' = "part_two"
    /\ UNCHANGED <<driver, suspended, day5_vars, day9_vars, load_vars, search_vars, fail, p1, start_locs, it>>

\* the iterator is exhausted: .min().unwrap(), then println! in main,
\* assert_eq!(29, ..) in test_part_two
main_part_two_unwrap ==
    /\ pc = "part_two"
    /\ it >= Len(start_locs)
    /\ IF is_none(p2)
       THEN /\ pc' = "panicked"
            /\ fail' = Some([tag |-> "Panic", msg |-> "called Option::unwrap() on a None value",
                             arg |-> 0])
       ELSE IF driver = "main" \/ unwrap(p2) = Expect_part_two
       THEN /\ pc' = "done"
            /\ fail' = fail
       ELSE /\ pc' = "panicked"
            /\ fail' = Some([tag |-> "Panic", msg |-> "assertion failed", arg |-> unwrap(p2)])
    /\ UNCHANGED <<driver, suspended, day5_vars, day9_vars, load_vars, search_vars, main_vars>>

-----------------------------------------------------------------------------
(* day5: Move::execute_9000, Move::execute_9001 and main (src/day5/src/main.rs) *)

\* A Stack is its contents, a sequence of crates with the top at the end; a
\* crate is the code point of its payload.  The labels of a Move count from 1.

day12_vars == <<load_vars, search_vars, main_vars, suspended>>

Move(num, from, to) == [num |-> num, from |-> from, to |-> to]

Reverse(s) == [i \in 1..Len(s) |-> s[Len(s) + 1 - i]]

\* stacks[label as usize - 1] is an element of stacks: otherwise the subtraction
\* overflows (label 0) or the index is out of bounds, and the program panics
InStacks(stacks, label) == label >= 1 /\ label <= Len(stacks)

RECURSIVE for_9000(_, _, _)
\* the last k passes of the for loop of execute_9000 (lines 168-173)
for_9000(m, stacks, k) ==
    IF k = 0
    THEN [tag |-> "Ok", stacks |-> stacks]
    ELSE IF ~InStacks(stacks, m.from)
    THEN [tag |-> "Panic", stacks |-> stacks]
    ELSE IF stacks[m.from] = <<>>
    THEN [tag |-> "Err", stacks |-> stacks]
    ELSE LET v == stacks[m.from][Len(stacks[m.from])]
             popped == [stacks EXCEPT ![m.from] = SubSeq(@, 1, Len(@) - 1)]
         IN  IF ~InStacks(popped, m.to)
             THEN [tag |-> "Panic", stacks |-> popped]
             ELSE for_9000(m, [popped EXCEPT ![m.to] = Append(@, v)], k - 1)

execute_9000(m, stacks) == for_9000(m, stacks, m.num)

RECURSIVE for_9001(_, _, _, _)
\* the last k passes of the first for loop of execute_9001 (lines 178-184), then
\* the second loop (lines 185-187), which pushes buf from its end to its start
\* variant: buf is pushed from its start to its end
for_9001_NoRev(m, stacks, buf, k) ==
    IF k = 0
    THEN IF buf = <<>>
         THEN [tag |-> "Ok", stacks |-> stacks]
         ELSE IF ~InStacks(stacks, m.to)
         THEN [tag |-> "Panic", stacks |-> stacks]
         ELSE [tag |-> "Ok", stacks |-> [stacks EXCEPT ![m.to] = @ \o buf]]
    ELSE IF ~InStacks(stacks, m.from)
    THEN [tag |-> "Panic", stacks |-> stacks]
    ELSE IF stacks[m.from] = <<>>
    THEN [tag |-> "Err", stacks |-> stacks]
    ELSE for_9001(m, [stacks EXCEPT ![m.from] = SubSeq(@, 1, Len(@) - 1)],
                  Append(buf, stacks[m.from][Len(stacks[m.from])]), k - 1)
for_9001(m, stacks, buf, k) ==
    IF k = 0
    THEN IF buf = <<>>
         THEN [tag |-> "Ok", stacks |-> stacks]
         ELSE IF ~InStacks(stacks, m.to)
         THEN [tag |-> "Panic", stacks |-> stacks]
         ELSE [tag |-> "Ok", stacks |-> [stacks EXCEPT ![m.to] = @ \o Reverse(buf)]]
    ELSE IF ~InStacks(stacks, m.from)
    THEN [tag |-> "Panic", stacks |-> stacks]
    ELSE IF stacks[m.from] = <<>>
    THEN [tag |-> "Err", stacks |-> stacks]
    ELSE for_9001(m, [stacks EXCEPT ![m.from] = SubSeq(@, 1, Len(@) - 1)],
                  Append(buf, stacks[m.from][Len(stacks[m.from])]), k - 1)

execute_9001(m, stacks) == for_9001(m, stacks, <<>>, m.num)

\* what .unwrap() or the panic inside the call leaves in fail
day5_failure(r) ==
    Some([tag |-> "Panic",
          msg |-> IF r.tag = "Err" THEN "Can't pop an empty stack!" ELSE "index out of bounds",
          arg |-> 0])

\* m.execute_9000(&mut stacks_p1).unwrap() for the next m of moves.iter()
day5_part_one_move ==
    /\ pc = "p1_moves"
    /\ m_idx < Len(moves)
    /\ LET r == execute_9000(moves[m_idx + 1], stacks_p1)
       IN  /\ stacks_p1' = r.stacks
           /\ IF r.tag = "Ok"
              THEN /\ m_idx' = m_idx + 1
                   /\ UNCHANGED <<pc, fail>>
              ELSE /\ pc' = "panicked"
                   /\ fail' = day5_failure(r)
                   /\ m_idx' = m_idx
    /\ UNCHANGED <<driver, day12_vars, day9_vars, stacks_p2, moves>>

\* the first loop over moves is over: msg_p1 is printed
day5_part_one_print ==
    /\ pc = "p1_moves"
    /\ m_idx >= Len(moves)
    /\ pc' = "p2_moves"
    /\ m_idx' = 0
    /\ UNCHANGED <<driver, day12_vars, day9_vars, fail, stacks_p1, stacks_p2, moves>>

\* m.execute_9001(&mut stacks_p2).unwrap() for the next m of moves.iter()
day5_part_two_move ==
    /\ pc = "p2_moves"
    /\ m_idx < Len(moves)
    /\ LET r == execute_9001(moves[m_idx + 1], stacks_p2)
       IN  /\ stacks_p2' = r.stacks
           /\ IF r.tag = "Ok"
              THEN /\ m_idx' = m_idx + 1
                   /\ UNCHANGED <<pc, fail>>
              ELSE /\ pc' = "panicked"
                   /\ fail' = day5_failure(r)
                   /\ m_idx' = m_idx
    /\ UNCHANGED <<driver, day12_vars, day9_vars, stacks_p1, moves>>

\* the second loop over moves is over: msg_p2 is printed and main returns
day5_part_two_print ==
    /\ pc = "p2_moves"
    /\ m_idx >= Len(moves)
    /\ pc' = "done"
    /\ UNCHANGED <<driver, day12_vars, day9_vars, fail, day5_vars>>

-----------------------------------------------------------------------------
(* day9: SimState<N> (src/day9/src/main.rs) *)

\* A Location is its x and y; locs holds the head at index 0 (locs[1] here) and
\* the last knot at index N - 1.

Location(x, y) == [x |-> x, y |-> y]

\* Location::default()
Location_default == Location(0, 0)

\* variant: a knot follows only along a row or a column, never diagonally
update_tail_loc_AxisOnly(ls, hd_idx) ==
    LET hd == ls[hd_idx + 1]
        tl == ls[hd_idx + 2]
        x_diff == hd.x - tl.x
        y_diff == hd.y - tl.y
    IN  IF y_diff = 0 /\ x_diff >= 2 THEN [ls EXCEPT ![hd_idx + 2].x = @ + 1]
        ELSE IF y_diff = 0 /\ x_diff <= -2 THEN [ls EXCEPT ![hd_idx + 2].x = @ - 1]
        ELSE IF x_diff = 0 /\ y_diff >= 2 THEN [ls EXCEPT ![hd_idx + 2].y = @ + 1]
        ELSE IF x_diff = 0 /\ y_diff <= -2 THEN [ls EXCEPT ![hd_idx + 2].y = @ - 1]
        ELSE ls

\* update_tail_loc(hd_idx) on the knots ls: the arms of the match (lines
\* 116-139) in their order
update_tail_loc(ls, hd_idx) ==
    LET hd == ls[hd_idx + 1]
        tl == ls[hd_idx + 2]
        x_diff == hd.x - tl.x
        y_diff == hd.y - tl.y
        d == <<x_diff, y_diff>>
    IN  IF d \in {<<0, 0>>, <<1, 0>>, <<0, 1>>, <<-1, 0>>, <<0, -1>>} THEN ls
        ELSE IF d \in {<<1, 1>>, <<1, -1>>, <<-1, 1>>, <<-1, -1>>} THEN ls
        ELSE IF y_diff = 0 /\ x_diff >= 1 THEN [ls EXCEPT ![hd_idx + 2].x = @ + 1]
        ELSE IF y_diff = 0 /\ x_diff <= -1 THEN [ls EXCEPT ![hd_idx + 2].x = @ - 1]
        ELSE IF x_diff = 0 /\ y_diff >= 1 THEN [ls EXCEPT ![hd_idx + 2].y = @ + 1]
        ELSE IF x_diff = 0 /\ y_diff <= -1 THEN [ls EXCEPT ![hd_idx + 2].y = @ - 1]
        ELSE IF x_diff > 0 /\ y_diff > 0
        THEN [ls EXCEPT ![hd_idx + 2].x = @ + 1, ![hd_idx + 2].y = @ + 1]
        ELSE IF x_diff > 0 /\ y_diff < 0
        THEN [ls EXCEPT ![hd_idx + 2].x = @ + 1, ![hd_idx + 2].y = @ - 1]
        ELSE IF x_diff < 0 /\ y_diff > 0
        THEN [ls EXCEPT ![hd_idx + 2].x = @ - 1, ![hd_idx + 2].y = @ + 1]
        ELSE IF x_diff < 0 /\ y_diff < 0
        THEN [ls EXCEPT ![hd_idx + 2].x = @ - 1, ![hd_idx + 2].y = @ - 1]
        ELSE ls

RECURSIVE advance_knots(_, _)
\* the for loop of advance (lines 105-107) from hd_idx on; N is Len(ls)
advance_knots(ls, hd_idx) ==
    IF hd_idx >= Len(ls) - 1
    THEN ls
    ELSE advance_knots(update_tail_loc(ls, hd_idx), hd_idx + 1)

\* advance() after the head was moved, the knots being ls: the knots follow,
\* then the Location of the last knot is inserted into tl_loc_set
advance(ls) ==
    /\ locs' = advance_knots(ls, 0)
    /\ tl_loc_set' = tl_loc_set \cup {advance_knots(ls, 0)[Len(ls)]}

\* the state a single head step leaves alone, and the step it records
head_step(dir) ==
    /\ pc = "rope"
    /\ Len(steps) < MaxSteps
    /\ steps' = Append(steps, dir)
    /\ UNCHANGED <<driver, pc, fail, load_vars, search_vars, main_vars, suspended, day5_vars>>

\* advance_right, advance_left, advance_up, advance_down (lines 84-102)
advance_right == head_step("R") /\ advance([locs EXCEPT ![1].x = @ + 1])
advance_left == head_step("L") /\ advance([locs EXCEPT ![1].x = @ - 1])
advance_up == head_step("U") /\ advance([locs EXCEPT ![1].y = @ + 1])
advance_down == head_step("D") /\ advance([locs EXCEPT ![1].y = @ - 1])

-----------------------------------------------------------------------------
(* Inputs *)

Lower == <<"a", "b", "c", "d", "e", "f", "g", "h", "i", "j", "k", "l", "m",
           "n", "o", "p", "q", "r", "s", "t", "u", "v", "w", "x", "y", "z">>

\* the code point of a one-letter string
Code(ch) ==
    IF ch = "S" THEN CharS
    ELSE IF ch = "E" THEN CharE
    ELSE b_a - 1 + (CHOOSE i \in 1..26 : Lower[i] = ch)

Text(letters) == [i \in 1..Len(letters) |-> Code(letters[i])]

\* the sample map of the puzzle statement (src/test_input.txt)
SampleInput ==
    << Text(<<"S", "a", "b", "q", "p", "o", "n", "m">>),
       Text(<<"a", "b", "c", "r", "y", "x", "x", "l">>),
       Text(<<"a", "c", "c", "s", "z", "E", "x", "k">>),
       Text(<<"a", "c", "c", "t", "u", "v", "w", "j">>),
       Text(<<"a", "b", "d", "e", "f", "g", "h", "i">> ) >>

\* chars of the small inputs: S, E, a, b, c, an upper-case letter (Z) and two
\* chars that are no letters (@, just below A, and {, just above z)
SmallChars == {CharS, CharE, b_a, b_a + 1, b_a + 2, 90, 64, 123}

RECURSIVE Texts(_)
\* every text of size at most n, ragged texts and empty lines included: a text
\* grows by a new empty line or by one char at the end of its last line
Texts(n) ==
    IF n = 0
    THEN {<<>>}
    ELSE LET prev == Texts(n - 1)
         IN  prev
             \cup {Append(t, <<>>) : t \in prev}
             \cup {[t EXCEPT ![Len(t)] = Append(@, ch)] :
                        t \in {u \in prev : u # <<>>}, ch \in SmallChars}

SmallInputs == Texts(MaxTextSize)

\* every rectangle of r rows and c columns of the given chars
Grids(rows, cols, chars) == UNION {[1..r -> [1..c -> chars]] : r \in rows, c \in cols}

\* the rectangles of the letters a, b, c
LetterGrids(rows, cols) == Grids(rows, cols, {b_a, b_a + 1, b_a + 2})

\* the 2 x 2 rectangles of S, E, a and c
MarkedGrids == Grids({2}, {2}, {CharS, CharE, b_a, b_a + 2})

\* the inputs of the loader and the graph builder
LoadInputs == SmallInputs \cup LetterGrids(2..MaxSide, 2..MaxSide) \cup MarkedGrids

\* chars an edit of the sample writes: S, E, a, c, z, Z and #
EditChars == {CharS, CharE, b_a, b_a + 2, b_z, 90, 35}

RECURSIVE Edited(_, _)
\* the texts that differ from base in at most n chars
Edited(base, n) ==
    IF n = 0
    THEN {base}
    ELSE LET prev == Edited(base, n - 1)
         IN  prev \cup {[t EXCEPT ![r][c] = ch] :
                            t \in prev, r \in 1..Len(base), c \in 1..Len(base[1]), ch \in EditChars}

\* the sample with the c at row 2, column 2 lowered to a: a lowest cell that
\* cannot climb to any neighbour
SamplePit == [SampleInput EXCEPT ![3][3] = b_a]

\* the sample with the q at row 0, column 3 raised to s: every step onto the
\* high ground around 'E' (the letters r to z) is a climb of two or more
SampleWalled == [SampleInput EXCEPT ![1][4] = Code("s")]

\* a 2 x 2 map of highest cells around 'E', without an 'S' and without an 'a'
NoStart == << Text(<<"z", "E">>), Text(<<"z", "z">>) >>

\* the empty file, a one-line file, the sample, the sample with the pit, the
\* sample with the wall, the map without a start, and the sample with up to
\* MaxEdits chars changed
MainInputs ==
    {<<>>, << Text(<<"S", "E">>) >>, SamplePit, SampleWalled, NoStart}
        \cup Edited(SampleInput, MaxEdits)

RECURSIVE GraphsWith(_, _)
\* the adjacency lists of n nodes with at most e unit-cost edges, pushed in any
\* order, loops and duplicates included
GraphsWith(n, e) ==
    IF e = 0
    THEN {[i \in 1..n |-> <<>>]}
    ELSE LET prev == GraphsWith(n, e - 1)
         IN  prev \cup {[g EXCEPT ![u] = Append(@, Edge(v, 1))] :
                            g \in prev, u \in 1..n, v \in 0..(n - 1)}

\* hand-made adjacency lists with unit costs
UnitGraphs == UNION {GraphsWith(n, MaxEdges) : n \in 1..MaxNodes}

\* the adjacency lists to_graph builds from the two-row grids of the letters a, c
GridGraphs ==
    {to_graph(read_heightmap(t).grid).graph :
        t \in Grids({2}, 2..MaxSearchCols, {b_a, b_a + 2})}

\* the costs of the edges of the weighted lists (Edge.cost is a usize)
EdgeCosts == {0, 1, 2}

RECURSIVE WeightedWith(_, _, _)
\* the adjacency lists of n nodes with at most e edges of the given costs,
\* pushed in any order, loops and duplicates included
WeightedWith(n, e, costs) ==
    IF e = 0
    THEN {[i \in 1..n |-> <<>>]}
    ELSE LET prev == WeightedWith(n, e - 1, costs)
         IN  prev \cup {[g EXCEPT ![u] = Append(@, Edge(v, c))] :
                            g \in prev, u \in 1..n, v \in 0..(n - 1), c \in costs}

\* Four nodes with a detour: node 3 is first seen at cost 5 and node 1 at cost
\* 3, then the way over node 2 lowers node 1 to 2 and node 3 to 4.
Detour ==
    << <<Edge(3, 5), Edge(1, 3), Edge(2, 1)>>,
       <<Edge(3, 2)>>,
       <<Edge(1, 1)>>,
       <<>> >>

\* hand-made adjacency lists of three nodes with edge costs, and the detour
WeightedGraphs == WeightedWith(3, MaxWeightedEdges, EdgeCosts) \cup {Detour}

\* the lists of three nodes with edges of cost 0 or 1, among them the lists with
\* loops and cycles of total cost 0, and the detour
CyclicGraphs == WeightedWith(3, MaxWeightedEdges, {0, 1}) \cup {Detour}

\* the (row, column) pairs of the chars of a text or the cells of a grid, 1-based
Positions(t) == UNION {{<<r, c>> : c \in 1..Len(t[r])} : r \in DOMAIN t}

-----------------------------------------------------------------------------
(* Specifications *)

InitLocals ==
    /\ start_loc = Location_new(0, <<0, 0>>)
    /\ end_loc = Location_new(0, <<0, 0>>)
    /\ hmap = <<>>
    /\ fail = None
    /\ p1 = None
    /\ start_locs = <<>>
    /\ it = 0
    /\ p2 = None

InitSearchLocals ==
    /\ ra = "returned"
    /\ dist = <<>>
    /\ heap = <<>>
    /\ ret = None
    /\ extracted = <<>>

InitOneCall == suspended = NoFrame

\* day5 does not run
InitNoCrates ==
    /\ stacks_p1 = <<>>
    /\ stacks_p2 = <<>>
    /\ moves = <<>>
    /\ m_idx = 0

\* day9 does not run
InitNoRope ==
    /\ locs = <<>>
    /\ tl_loc_set = {}
    /\ steps = <<>>

\* an entry point starts on one of the main inputs
Init ==
    /\ driver \in {"main", "test_part_one", "test_part_two"}
    /\ pc = "read"
    /\ input \in MainInputs
    /\ adj_list = <<>>
    /\ sp_start = 0
    /\ sp_end = 0
    /\ InitLocals
    /\ InitSearchLocals
    /\ InitOneCall
    /\ InitNoCrates
    /\ InitNoRope

Next ==
    \/ main_read
    \/ main_to_graph
    \/ main_part_one
    \/ main_part_one_ret
    \/ main_find_targets
    \/ main_part_two_next
    \/ main_part_two_ret
    \/ main_part_two_unwrap
    \/ shortest_path_loop

Spec == Init /\ [][Next]_vars

\* read_heightmap and to_graph on every small input and every letter grid
InitLoad ==
    /\ driver = "main"
    /\ pc = "read"
    /\ input \in LoadInputs
    /\ adj_list = <<>>
    /\ sp_start = 0
    /\ sp_end = 0
    /\ InitLocals
    /\ InitSearchLocals
    /\ InitOneCall
    /\ InitNoCrates
    /\ InitNoRope

NextLoad == main_read \/ main_to_graph

SpecLoad == InitLoad /\ [][NextLoad]_vars

\* the positions of a char in a text
PositionsOf(t, ch) == {p \in Positions(t) : t[p[1]][p[2]] = ch}

\* read_heightmap and to_graph on the inputs that hold both markers
InitMarked ==
    /\ InitLoad
    /\ PositionsOf(input, CharS) # {}
    /\ PositionsOf(input, CharE) # {}

SpecMarked == InitMarked /\ [][NextLoad]_vars

\* shortest_path on its own, on every unit-cost adjacency list and every pair
\* of its nodes
InitSearch ==
    /\ driver = "call"
    /\ pc = "sp_call"
    /\ input = <<>>
    /\ adj_list \in UnitGraphs \cup GridGraphs
    /\ sp_start \in 0..(Len(adj_list) - 1)
    /\ sp_end \in 0..(Len(adj_list) - 1)
    /\ InitLocals
    /\ InitSearchLocals
    /\ InitOneCall
    /\ InitNoCrates
    /\ InitNoRope

NextSearch == shortest_path_call \/ shortest_path_loop

SpecSearch == InitSearch /\ [][NextSearch]_vars

\* shortest_path on its own, on every weighted adjacency list and every pair of
\* its nodes
InitWeighted ==
    /\ driver = "call"
    /\ pc = "sp_call"
    /\ input = <<>>
    /\ adj_list \in WeightedGraphs
    /\ sp_start \in 0..(Len(adj_list) - 1)
    /\ sp_end \in 0..(Len(adj_list) - 1)
    /\ InitLocals
    /\ InitSearchLocals
    /\ InitOneCall
    /\ InitNoCrates
    /\ InitNoRope

SpecWeighted == InitWeighted /\ [][NextSearch]_vars

\* the calls on the lists with edges of cost 0 or 1 that start at node 0
InitWeightedLive ==
    /\ driver = "call"
    /\ pc = "sp_call"
    /\ input = <<>>
    /\ adj_list \in CyclicGraphs
    /\ sp_start = 0
    /\ sp_end \in 0..(Len(adj_list) - 1)
    /\ InitLocals
    /\ InitSearchLocals
    /\ InitOneCall
    /\ InitNoCrates
    /\ InitNoRope

\* The call as a running program: shortest_path is sequential code without
\* blocking operations, so a call that can make a step makes it.
SpecWeightedLive == InitWeightedLive /\ [][NextSearch]_vars /\ WF_vars(NextSearch)

\* the grids whose cells are searched: the 2 x 2 rectangles of a, b, c and the
\* two-row rectangles of a, c
CellGrids ==
    Grids({2}, {2}, {b_a, b_a + 1, b_a + 2}) \cup Grids({2}, 2..MaxSearchCols, {b_a, b_a + 2})

\* the number of chars of a text
Size(t) == Cardinality(Positions(t))

\* read_heightmap, to_graph and then shortest_path between any two cells
InitCells ==
    /\ driver = "call"
    /\ pc = "read"
    /\ input \in CellGrids
    /\ adj_list = <<>>
    /\ sp_start \in 0..(Size(input) - 1)
    /\ sp_end \in 0..(Size(input) - 1)
    /\ InitLocals
    /\ InitSearchLocals
    /\ InitOneCall
    /\ InitNoCrates
    /\ InitNoRope

NextCells == main_read \/ main_to_graph \/ shortest_path_call_cells \/ shortest_path_loop

SpecCells == InitCells /\ [][NextCells]_vars

\* the sequences without repetition of the crates of a set
RECURSIVE Orders(_)
Orders(S) == IF S = {} THEN {<<>>} ELSE UNION {{Append(o, c) : o \in Orders(S \ {c})} : c \in S}

\* the crates A, B, C, ...
CrateSet(n) == {64 + i : i \in 1..n}

\* three stacks that hold up to MaxCrates different crates: an order of the
\* crates cut in three
StackSets ==
    UNION {{<<SubSeq(o, 1, IF i < j THEN i ELSE j), SubSeq(o, (IF i < j THEN i ELSE j) + 1, IF i < j THEN j ELSE i),
               SubSeq(o, (IF i < j THEN j ELSE i) + 1, Len(o))>> :
               o \in Orders(CrateSet(n)), i \in 0..n, j \in 0..n} : n \in 0..MaxCrates}

\* every move of up to MaxCrates + 1 crates between the labels 0..4, of which 0
\* and 4 name no stack
AnyMoves == {Move(n, f, t) : n \in 0..(MaxCrates + 1), f \in 0..4, t \in 0..4}

\* the moves of one or two crates between two different stacks
PlainMoves == {m \in AnyMoves : m.num \in 1..2 /\ m.from \in 1..3 /\ m.to \in 1..3 /\ m.from # m.to}

\* day5 main after read_stacks_and_moves and the clone: one move of any kind, or
\* two plain moves
InitCrates ==
    /\ driver = "day5_main"
    /\ pc = "p1_moves"
    /\ input = <<>>
    /\ adj_list = <<>>
    /\ sp_start = 0
    /\ sp_end = 0
    /\ InitLocals
    /\ InitSearchLocals
    /\ InitOneCall
    /\ stacks_p1 \in StackSets
    /\ stacks_p2 = stacks_p1
    /\ moves \in {<<m>> : m \in AnyMoves} \cup {<<m, n>> : m \in PlainMoves, n \in PlainMoves}
    /\ m_idx = 0
    /\ InitNoRope

NextCrates ==
    \/ day5_part_one_move
    \/ day5_part_one_print
    \/ day5_part_two_move
    \/ day5_part_two_print

SpecCrates == InitCrates /\ [][NextCrates]_vars

\* SimState::<N>::new() for N from 2 (part one) up to MaxKnots, then any
\* sequence of single head steps
InitRope ==
    /\ driver = "day9_sim"
    /\ pc = "rope"
    /\ input = <<>>
    /\ adj_list = <<>>
    /\ sp_start = 0
    /\ sp_end = 0
    /\ InitLocals
    /\ InitSearchLocals
    /\ InitOneCall
    /\ InitNoCrates
    /\ locs \in {[i \in 1..n |-> Location_default] : n \in 2..MaxKnots}
    /\ tl_loc_set = {}
    /\ steps = <<>>

NextRope == advance_right \/ advance_left \/ advance_up \/ advance_down

SpecRope == InitRope /\ [][NextRope]_vars

\* shortest_path on its own with ties of the queue broken in any way
NextAnyTie == shortest_path_call \/ shortest_path_loop_any_tie

SpecAnyTie == InitSearch /\ [][NextAnyTie]_vars

\* hand-made adjacency lists of one, two or three nodes for two invocations
SharedGraphs == UNION {GraphsWith(n, MaxSharedEdges) : n \in 1..3}

\* two invocations of shortest_path on one adjacency list, on every pair of
\* argument pairs, the second one suspended before its first step
InitShared ==
    /\ driver = "call"
    /\ pc = "sp_call"
    /\ input = <<>>
    /\ adj_list \in SharedGraphs
    /\ sp_start \in 0..(Len(adj_list) - 1)
    /\ sp_end \in 0..(Len(adj_list) - 1)
    /\ \E st \in 0..(Len(adj_list) - 1) : \E en \in 0..(Len(adj_list) - 1) :
           suspended = Frame("sp_call", st, en, "returned", <<>>, <<>>, None, <<>>)
    /\ InitLocals
    /\ InitSearchLocals
    /\ InitNoCrates
    /\ InitNoRope

NextShared == shortest_path_call \/ shortest_path_loop \/ switch \/ shortest_path_call_next

SpecShared == InitShared /\ [][NextShared]_vars

\* the entry points on the sample map
InitSample ==
    /\ driver \in {"main", "test_part_one", "test_part_two"}
    /\ pc = "read"
    /\ input = SampleInput
    /\ adj_list = <<>>
    /\ sp_start = 0
    /\ sp_end = 0
    /\ InitLocals
    /\ InitSearchLocals
    /\ InitOneCall
    /\ InitNoCrates
    /\ InitNoRope

SpecSample == InitSample /\ [][Next]_vars

-----------------------------------------------------------------------------
(* Reference notions the properties are stated with *)

Range(f) == {f[i] : i \in DOMAIN f}

\* the nodes one edge of G away from a node of the set S
Successors(G, S) == {e.node : e \in UNION {Range(G[n + 1]) : n \in S}}

RECURSIVE ReachSet(_, _)
\* the nodes some directed path of G (of any length, 0 included) reaches from S
ReachSet(G, S) ==
    LET T == S \cup Successors(G, S)
    IN  IF T = S THEN S ELSE ReachSet(G, T)

PathExists(G, s, t) == t \in ReachSet(G, {s})

RECURSIVE Layer(_, _, _, _, _)
\* breadth-first layers: frontier is layer d, seen the layers up to d
Layer(G, frontier, seen, t, d) ==
    IF t \in frontier THEN Some(d)
    ELSE IF frontier = {} THEN None
    ELSE LET nxt == Successors(G, frontier) \ seen
         IN  Layer(G, nxt, seen \cup nxt, t, d + 1)

\* the breadth-first layer of t from s in G, None when t is in no layer
BFSDist(G, s, t) == Layer(G, {s}, {s}, t, 0)

\* the least element of a non-empty set of numbers
Least(S) == CHOOSE m \in S : \A n \in S : m <= n

RECURSIVE WithinEdges(_, _, _)
\* for every node the least total cost of a path of at most k edges from s to
\* it, usize_MAX when there is none
WithinEdges(G, s, k) ==
    IF k = 0
    THEN [n \in 1..Len(G) |-> IF n = s + 1 THEN 0 ELSE usize_MAX]
    ELSE LET d == WithinEdges(G, s, k - 1)
         IN  [n \in 1..Len(G) |->
                 Least({d[n]} \cup UNION {{d[u] + G[u][i].cost :
                                               i \in {j \in 1..Len(G[u]) : G[u][j].node = n - 1}} :
                                              u \in {v \in 1..Len(G) : d[v] < usize_MAX}})]

\* the least total cost of a path from s to each node: with costs that are not
\* negative a cheapest path visits no node twice
TrueCost(G, s) == WithinEdges(G, s, Len(G) - 1)

\* the least element of a set of Options' values, None for the empty set
MinOfSet(S) == IF S = {} THEN None ELSE Some(CHOOSE m \in S : \A n \in S : m <= n)


-----------------------------------------------------------------------------
(* Properties of shortest_path (SpecSearch) *)

\* C1: on a unit-cost adjacency list, when the target is reachable from the start,
\* shortest_path returns Some(d) with d the breadth-first layer distance from start
\* to target, which is the least number of edges (the least total cost) of a
\* directed path.
C1_ShortestPathIsBFSDistance ==
    (pc = "returned" /\ PathExists(adj_list, sp_start, sp_end))
        => /\ is_some(ret)
           /\ ret = BFSDist(adj_list, sp_start, sp_end)

\* a search that returned a distance of two or more although the start has
\* several outgoing edges
C1_Witness ==
    /\ pc = "returned"
    /\ is_some(ret)
    /\ unwrap(ret) >= 2
    /\ Len(adj_list[sp_start + 1]) >= 2

\* C2: shortest_path returns None exactly when no directed path leads from start
\* to target; otherwise it returns Some of a number; it ends in no other way.
C2_NoneIffNoPath ==
    /\ pc # "panicked"
    /\ pc = "returned" =>
           /\ is_none(ret) <=> ~PathExists(adj_list, sp_start, sp_end)
           /\ is_some(ret) => unwrap(ret) \in 0..(Len(adj_list) - 1)
           /\ is_none(ret) \/ is_some(ret)

\* a search that explored nodes beyond the start and returned None
C2_Witness ==
    /\ pc = "returned"
    /\ is_none(ret)
    /\ \E n \in 0..(Len(adj_list) - 1) : n # sp_start /\ dist[n + 1] < usize_MAX

\* C7: shortest_path(n, n) returns Some(0) for every node n, whatever edges
\* leave n.
C7_SelfDistanceZero ==
    (pc = "returned" /\ sp_start = sp_end) => ret = Some(0)

\* a search from a node of a grid's graph to itself, the node having edges
C7_Witness ==
    /\ pc = "returned"
    /\ sp_start = sp_end
    /\ adj_list \in GridGraphs
    /\ Len(adj_list[sp_start + 1]) >= 2
    /\ ret = Some(0)

\* The states of a node n during a search, read off the locals: Unvisited while
\* its distance is infinite; Frontier while the State pushed with its distance
\* is in the queue; Settled once that State has been popped.
Unvisited(n) == dist[n + 1] = usize_MAX

Frontier(n) ==
    /\ dist[n + 1] < usize_MAX
    /\ \E i \in 1..Len(heap) : heap[i].position = n /\ heap[i].cost = dist[n + 1]

Settled(n) == dist[n + 1] < usize_MAX /\ ~Frontier(n)

Nodes == 0..(Len(adj_list) - 1)

\* C20 (as claimed): when a search ends, by early exit or by exhaustion of the
\* queue, every node is Settled or Unvisited and no node is left Frontier, with
\* a tentative distance still queued.
C20_NoFrontierAtEnd ==
    pc = "returned" => \A n \in Nodes : ~Frontier(n)

\* C20 (amended): when a search ends by exhaustion of the queue, every node is
\* terminal: Settled if the start reaches it, Unvisited if not, and the queue is
\* empty.  When it ends by early exit, the target is Settled at the returned
\* cost and every node is Settled, Unvisited or still Frontier; a node left
\* Frontier has a tentative distance no lower than the returned cost.
C20_TerminalStates ==
    pc = "returned" =>
        /\ is_none(ret) =>
               /\ heap = <<>>
               /\ \A n \in Nodes :
                      IF PathExists(adj_list, sp_start, n) THEN Settled(n) ELSE Unvisited(n)
        /\ is_some(ret) =>
               /\ Settled(sp_end)
               /\ dist[sp_end + 1] = unwrap(ret)
               /\ \A n \in Nodes : Frontier(n) => dist[n + 1] >= unwrap(ret)
               /\ \A n \in Nodes : Unvisited(n) => n # sp_start

\* an early exit that left a node Frontier, beside a Settled node that is
\* neither start nor target and a node that is Unvisited
C20_Witness ==
    /\ pc = "returned"
    /\ is_some(ret)
    /\ \E n \in Nodes : Frontier(n)
    /\ \E n \in Nodes : Settled(n) /\ n \notin {sp_start, sp_end}
    /\ \E n \in Nodes : Unvisited(n)

-----------------------------------------------------------------------------
(* Properties of shortest_path on weighted adjacency lists (SpecWeighted) *)

\* the State extracted last
LastExtracted == extracted[Len(extracted)]

\* an extracted State was stale: its cost was above the table's entry for its node
Stale(e) == e.cost > e.best

\* C21: the early exit is valid: when shortest_path has extracted a State of
\* the target and returned its cost, that cost was the table's entry for the
\* target when it was extracted (the State was not stale) and still is, and no
\* State left in the queue has a lower cost; throughout the search the States
\* are extracted in non-decreasing order of cost.
C21_EarlyExitIsValid ==
    /\ pc # "panicked"
    /\ (pc = "returned" /\ is_some(ret)) =>
           /\ extracted # <<>>
           /\ LastExtracted.position = sp_end
           /\ LastExtracted.cost = unwrap(ret)
           /\ ~Stale(LastExtracted)
           /\ LastExtracted.best = unwrap(ret)
           /\ dist[sp_end + 1] = unwrap(ret)
           /\ \A i \in 1..Len(heap) : heap[i].cost >= unwrap(ret)
    /\ \A i \in 1..Len(extracted) : \A j \in 1..Len(extracted) :
           i < j => extracted[i].cost <= extracted[j].cost

\* an early exit at a cost of two or more, after a stale State of another node
\* was extracted, while a stale State of the target itself is still queued
C21_Witness ==
    /\ pc = "returned"
    /\ is_some(ret)
    /\ unwrap(ret) >= 2
    /\ \E i \in 1..Len(extracted) : Stale(extracted[i])
    /\ \E i \in 1..Len(heap) : heap[i].position = sp_end /\ heap[i].cost > unwrap(ret)

\* The node n has been settled: a State of n was extracted that was not stale.
WasSettled(n) == \E i \in 1..Len(extracted) : extracted[i].position = n /\ ~Stale(extracted[i])

\* C22: once a node is Settled (a State of it was extracted with the cost the
\* table held for it), no later step of that search changes its entry in the
\* table, and the entry is the least total cost of a path from the start to
\* the node.
C22_SettledIsFinal ==
    [][\A n \in Nodes :
           /\ (WasSettled(n) /\ pc = "sp_loop") => dist'[n + 1] = dist[n + 1]
           /\ WasSettled(n)' => dist'[n + 1] = TrueCost(adj_list, sp_start)[n + 1]]_vars

\* the search goes on after a node other than the start was settled at a cost
\* of two or more that is lower than the cost it was first seen at: the State
\* of the first sighting is still queued
C22_Witness ==
    /\ pc = "sp_loop"
    /\ heap # <<>>
    /\ \E n \in Nodes :
           /\ n # sp_start
           /\ WasSettled(n)
           /\ dist[n + 1] >= 2
           /\ \E i \in 1..Len(heap) : heap[i].position = n /\ heap[i].cost > dist[n + 1]
           /\ \E m \in Nodes : Unvisited(m) \/ Frontier(m)

\* the States a step of the loop pushed: heap.pop() took one State out of h,
\* and the pushes of the step are at the end of h2
PushedBy(h, h2) == SubSeq(h2, Len(h), Len(h2))

\* The table and the queue agree: before the first extraction every node is
\* Unvisited but the start, which has the distance 0 and the only State of the
\* queue; a node with a finite distance that has not been settled has a State in
\* the queue at that distance; and a node is Settled by its history exactly when
\* it is Settled by the table and the queue.
TableMatchesQueue ==
    pc \in {"sp_loop", "returned"} =>
        /\ extracted = <<>> =>
               /\ heap = << State(0, sp_start) >>
               /\ dist[sp_start + 1] = 0
               /\ Frontier(sp_start)
               /\ \A n \in Nodes \ {sp_start} : Unvisited(n)
        /\ \A n \in Nodes : (dist[n + 1] < usize_MAX /\ ~WasSettled(n)) => Frontier(n)
        /\ \A n \in Nodes : Settled(n) <=> WasSettled(n)

\* C23: throughout a search the distance table and the queue stay consistent:
\* at first every node is Unvisited except the start, which is Frontier with
\* distance 0 and one State in the queue; afterwards a table entry changes only
\* by a strict decrease, made in a relaxation that pushes the State (new cost,
\* node), and nothing else is pushed; so every node with a finite distance that
\* is not yet Settled has a State in the queue at its table distance; and a
\* node only moves from Unvisited to Frontier to Settled, never backwards.
C23_TableAndQueueConsistent ==
    [][/\ TableMatchesQueue'
       /\ (pc = "sp_loop" /\ heap # <<>>) =>
              /\ \A n \in Nodes :
                     /\ dist'[n + 1] <= dist[n + 1]
                     /\ dist'[n + 1] < dist[n + 1] =>
                            \E k \in 1..Len(PushedBy(heap, heap')) :
                                PushedBy(heap, heap')[k] = State(dist'[n + 1], n)
                     /\ Unvisited(n)' => Unvisited(n)
                     /\ Unvisited(n) => ~Settled(n)'
                     /\ Settled(n) => Settled(n)'
              /\ \A k \in 1..Len(PushedBy(heap, heap')) :
                     LET nxt == PushedBy(heap, heap')[k]
                     IN  /\ nxt.cost < dist[nxt.position + 1]
                         /\ dist'[nxt.position + 1] <= nxt.cost
              /\ Len(heap') >= Len(heap) - 1
       /\ (pc = "sp_loop" /\ heap = <<>>) => UNCHANGED <<dist, heap>>]_vars

\* in the middle of a search a node is Frontier whose table entry was lowered
\* after its first sighting (the State of the first sighting is still queued),
\* beside a Settled node and an Unvisited one
C23_Witness ==
    /\ pc = "sp_loop"
    /\ \E n \in Nodes :
           /\ Frontier(n)
           /\ \E i \in 1..Len(heap) : heap[i].position = n /\ heap[i].cost > dist[n + 1]
    /\ \E n \in Nodes : WasSettled(n)
    /\ \E n \in Nodes : Unvisited(n)

\* the State the next heap.pop() returns
NextTop == heap[heap_top(heap)]

\* C24: a step that extracts a State whose cost is greater than the table's
\* entry for its node discards it: no table entry changes, nothing is pushed,
\* the call neither returns nor fails, and the only effect is that the State is
\* gone from the queue.
C24_StaleIsDiscarded ==
    [][(pc = "sp_loop" /\ heap # <<>> /\ NextTop.cost > dist[NextTop.position + 1]) =>
           /\ dist' = dist
           /\ heap' = RemoveAt(heap, heap_top(heap))
           /\ Len(heap') = Len(heap) - 1
           /\ pc' = "sp_loop"
           /\ UNCHANGED <<ret, fail, sp_start, sp_end, adj_list>>]_vars

\* a stale State of a node that has outgoing edges was just extracted, and the
\* search goes on with the States that are left
C24_Witness ==
    /\ pc = "sp_loop"
    /\ extracted # <<>>
    /\ Stale(LastExtracted)
    /\ adj_list[LastExtracted.position + 1] # <<>>
    /\ heap # <<>>

-----------------------------------------------------------------------------
(* Termination of shortest_path (SpecWeightedLive) *)

\* the node n lies on a cycle of G
OnCycle(G, n) == n \in ReachSet(G, Successors(G, {n}))

RECURSIVE EdgeCount(_, _)
\* the number of edges of the entries of G from the i-th on
EdgeCount(G, i) == IF i > Len(G) THEN 0 ELSE Len(G[i]) + EdgeCount(G, i + 1)

\* C25: every call of shortest_path on a finite adjacency list with a start in
\* range returns, and it returns in one of two ways: Some(cost) on extracting
\* a State of the target, or None with the queue exhausted and no State of the
\* target ever extracted; it never fails and its loop does not run forever,
\* whether or not the list has cycles: the States extracted and the States
\* queued are together never more than the edges of the list and one.
C25_SearchTerminates ==
    /\ <>(pc = "returned")
    /\ [](pc # "panicked")
    /\ [](Len(extracted) + Len(heap) <= 1 + EdgeCount(adj_list, 1))
    /\ [](pc = "returned" =>
             IF is_some(ret)
             THEN /\ extracted # <<>>
                  /\ LastExtracted.position = sp_end
                  /\ LastExtracted.cost = unwrap(ret)
             ELSE /\ heap = <<>>
                  /\ \A i \in 1..Len(extracted) : extracted[i].position # sp_end)

\* a call that went round a cycle of the list and returned None with the queue
\* exhausted
C25_Witness ==
    /\ pc = "returned"
    /\ is_none(ret)
    /\ heap = <<>>
    /\ Len(extracted) >= 2
    /\ \E n \in Nodes : WasSettled(n) /\ n # sp_start /\ OnCycle(adj_list, n)

-----------------------------------------------------------------------------
(* Properties of the order of the queue (SpecAnyTie) *)

\* C16: the value shortest_path returns does not depend on how ties between
\* States of equal cost are broken: with heap.pop() returning any State of least
\* cost, whichever way the choice falls at each pop, the call returns what it
\* returns with the implemented secondary key (the position), and never panics.
C16_TieBreakIrrelevant ==
    /\ pc # "panicked"
    /\ pc = "returned" => ret = shortest_path(adj_list, sp_start, sp_end).ret

\* a call that returned a distance after ties fell another way than under the
\* implemented key: its distance table differs from the implemented call's
C16_Witness ==
    /\ pc = "returned"
    /\ is_some(ret)
    /\ unwrap(ret) >= 2
    /\ dist # shortest_path(adj_list, sp_start, sp_end).dist

-----------------------------------------------------------------------------
(* Properties of invocations that share an adjacency list (SpecShared) *)

\* a returned invocation holds what shortest_path on its own returns for its
\* arguments, and left its locals as that call leaves them
AsAlone(f) ==
    f.pc = "returned" =>
        LET alone == shortest_path(adj_list, f.sp_start, f.sp_end)
        IN  /\ f.ret = alone.ret
            /\ f.dist = alone.dist
            /\ f.heap = alone.heap

\* C15: searches over one adjacency list are independent: whether an invocation
\* runs alone, after another search in the same caller, twice with the same
\* arguments, or with its steps interleaved with the steps of another invocation,
\* it returns what shortest_path on its own returns for its (start, target), and
\* from a table and a queue of its own that end as they end when it runs alone.
C15_SearchesIndependent ==
    /\ pc # "panicked"
    /\ AsAlone(Frame(pc, sp_start, sp_end, ra, dist, heap, ret, extracted))
    /\ AsAlone(suspended)

\* one invocation has returned a distance while the other is suspended in the
\* middle of its loop, after relaxing edges into a table that differs from the
\* first one's
C15_Witness ==
    /\ pc = "returned"
    /\ is_some(ret)
    /\ unwrap(ret) >= 1
    /\ suspended.pc = "sp_loop"
    /\ Len(suspended.heap) >= 1
    /\ \E n \in 0..(Len(adj_list) - 1) :
           n # suspended.sp_start /\ suspended.dist[n + 1] < usize_MAX
    /\ suspended.dist # dist

-----------------------------------------------------------------------------
(* Properties of read_heightmap and to_graph (SpecLoad) *)

\* the cell of a grid at a position
CellAt(grid, p) == grid[p[1]][p[2]]

\* two positions are 4-neighbours
Neighbours4(p, q) ==
    \/ p[1] = q[1] /\ (p[2] = q[2] + 1 \/ q[2] = p[2] + 1)
    \/ p[2] = q[2] /\ (p[1] = q[1] + 1 \/ q[1] = p[1] + 1)

\* G has an edge from node a to node b
HasEdge(G, a, b) == \E i \in 1..Len(G[a + 1]) : G[a + 1][i].node = b

\* C3: in the adjacency list to_graph returns, for every ordered pair of cells
\* (A, B) there is an edge A -> B exactly when B is a 4-neighbour of A and
\* elevation(B) - elevation(A) <= 1, each direction on its own; every edge costs 1.
C3_EdgeIffClimbable ==
    pc = "part_one" =>
        /\ \A p \in Positions(hmap) : \A q \in Positions(hmap) :
               HasEdge(adj_list, CellAt(hmap, p)[1].node_idx, CellAt(hmap, q)[1].node_idx)
                   <=> /\ Neighbours4(p, q)
                       /\ CellAt(hmap, q)[2] - CellAt(hmap, p)[2] <= 1
        /\ \A n \in 1..Len(adj_list) : \A i \in 1..Len(adj_list[n]) : adj_list[n][i].cost = 1

\* a grid with neighbours A, B two units apart: A -> B absent and B -> A
\* present, and another pair exactly one unit apart joined both ways
C3_Witness ==
    /\ pc = "part_one"
    /\ \E p \in Positions(hmap) : \E q \in Positions(hmap) :
           /\ Neighbours4(p, q)
           /\ CellAt(hmap, q)[2] - CellAt(hmap, p)[2] = 2
           /\ ~HasEdge(adj_list, CellAt(hmap, p)[1].node_idx, CellAt(hmap, q)[1].node_idx)
           /\ HasEdge(adj_list, CellAt(hmap, q)[1].node_idx, CellAt(hmap, p)[1].node_idx)
    /\ \E p \in Positions(hmap) : \E q \in Positions(hmap) :
           /\ Neighbours4(p, q)
           /\ CellAt(hmap, q)[2] - CellAt(hmap, p)[2] = 1
           /\ HasEdge(adj_list, CellAt(hmap, p)[1].node_idx, CellAt(hmap, q)[1].node_idx)
           /\ HasEdge(adj_list, CellAt(hmap, q)[1].node_idx, CellAt(hmap, p)[1].node_idx)

\* an ASCII letter
IsLetter(c) == c \in 65..90 \/ c \in 97..122

\* the positions of the chars of a text that are no letters
BadPositions(t) == {p \in Positions(t) : ~IsLetter(CellAt(t, p))}

\* p comes no later than q in scan order (lines top to bottom, chars left to right)
ScanLeq(p, q) == p[1] < q[1] \/ (p[1] = q[1] /\ p[2] <= q[2])

FirstBad(t) == CHOOSE p \in BadPositions(t) : \A q \in BadPositions(t) : ScanLeq(p, q)

\* C8: when some char of the input is no ASCII letter, read_heightmap returns the
\* Err that names the first such char in scan order, and main stops there: no
\* HeightMap, start or end is returned and no graph is built.
C8_NonLetterFailsFast ==
    (pc # "read" /\ BadPositions(input) # {}) =>
        /\ pc = "exit_err"
        /\ fail = Some([tag |-> "Err", msg |-> "Expected all ASCII alphabetic types, got",
                        arg |-> CellAt(input, FirstBad(input))])
        /\ hmap = <<>>
        /\ adj_list = <<>>
        /\ start_loc = Location_new(0, <<0, 0>>)
        /\ end_loc = Location_new(0, <<0, 0>>)

\* an input with letters before two different chars that are no letters; the
\* Err names the one that comes first
C8_Witness ==
    /\ pc = "exit_err"
    /\ Cardinality({CellAt(input, p) : p \in BadPositions(input)}) = 2
    /\ FirstBad(input) # <<1, 1>>
    /\ fail = Some([tag |-> "Err", msg |-> "Expected all ASCII alphabetic types, got",
                    arg |-> CellAt(input, FirstBad(input))])


\* C9 (as claimed): an input without an 'S' or without an 'E' makes
\* read_heightmap fail with an Err.
C9_MissingMarkerFails ==
    (pc # "read" /\ (PositionsOf(input, CharS) = {} \/ PositionsOf(input, CharE) = {}))
        => (pc = "exit_err" /\ is_some(fail) /\ unwrap(fail).tag = "Err")

\* C10 (as claimed): an input read_heightmap accepts has exactly one 'S' and
\* exactly one 'E', the returned start and end are those cells, and every other
\* cell has the elevation of its own letter.
C10_UniqueMarkers ==
    pc = "to_graph" =>
        /\ Cardinality(PositionsOf(input, CharS)) = 1
        /\ Cardinality(PositionsOf(input, CharE)) = 1
        /\ \A p \in Positions(input) :
               /\ CellAt(input, p) = CharS => start_loc = CellAt(hmap, p)[1]
               /\ CellAt(input, p) = CharE => end_loc = CellAt(hmap, p)[1]
               /\ CellAt(input, p) \notin {CharS, CharE} => CellAt(hmap, p)[2] = CellAt(input, p)

\* C11 (as claimed): in every input read_heightmap accepts, every cell's
\* elevation relative to 'a' lies in 0..25; no cell is below the elevation the
\* start marker gets and none above the elevation the end marker gets.
C11_ElevationInRange ==
    pc = "to_graph" =>
        \A p \in Positions(hmap) :
            /\ CellAt(hmap, p)[2] - b_a \in 0..25
            /\ CellAt(hmap, p)[2] >= b_a
            /\ CellAt(hmap, p)[2] <= b_z

\* the last position of a char in a text, in scan order
LastOf(t, ch) == CHOOSE p \in PositionsOf(t, ch) : \A q \in PositionsOf(t, ch) : ScanLeq(q, p)

\* the number of positions before p in scan order
Rank(t, p) == Cardinality({q \in Positions(t) : ScanLeq(q, p) /\ q # p})

\* the 0-based (row, column) of a position
GridIdx(p) == <<p[1] - 1, p[2] - 1>>

\* C12: in the HeightMap read_heightmap returns, every 'S' cell has the elevation
\* of the letter 'a', every 'E' cell the elevation of the letter 'z', every other
\* cell the elevation of its own letter; when the input has an 'S' the returned
\* start is the Location stored in the grid for the 'S' cell (the last one read,
\* should there be several), and likewise the returned end for 'E'.
C12_MarkersAndLetters ==
    pc = "to_graph" =>
        /\ Positions(hmap) = Positions(input)
        /\ \A p \in Positions(input) :
               /\ CellAt(input, p) = CharS => CellAt(hmap, p)[2] = Code("a")
               /\ CellAt(input, p) = CharE => CellAt(hmap, p)[2] = Code("z")
               /\ CellAt(input, p) \notin {CharS, CharE} => CellAt(hmap, p)[2] = CellAt(input, p)
        /\ PositionsOf(input, CharS) # {} =>
               /\ start_loc = CellAt(hmap, LastOf(input, CharS))[1]
               /\ start_loc.grid_idx = GridIdx(LastOf(input, CharS))
        /\ PositionsOf(input, CharE) # {} =>
               /\ end_loc = CellAt(hmap, LastOf(input, CharE))[1]
               /\ end_loc.grid_idx = GridIdx(LastOf(input, CharE))

\* an accepted input with one 'S' and one 'E', neither of them first, and a
\* lower-case and an upper-case letter
C12_Witness ==
    /\ pc = "to_graph"
    /\ Cardinality(PositionsOf(input, CharS)) = 1
    /\ Cardinality(PositionsOf(input, CharE)) = 1
    /\ start_loc.node_idx > 0
    /\ end_loc.node_idx > 0
    /\ hmap[1][1][2] = b_a + 2
    /\ \E p \in Positions(hmap) : CellAt(hmap, p)[2] = 90

\* C13: read_heightmap numbers the cells 0, 1, 2, ... in row-major scan order:
\* the identifier of a cell is the number of cells before it, so the identifiers
\* of a grid of N cells are exactly 0..N-1 and no two cells share one; the 'S' and
\* 'E' cells are numbered in the same sequence, and the returned start and end
\* carry those numbers.
C13_SequentialIds ==
    pc = "to_graph" =>
        /\ \A p \in Positions(hmap) :
               /\ CellAt(hmap, p)[1].node_idx = Rank(hmap, p)
               /\ CellAt(hmap, p)[1].grid_idx = GridIdx(p)
        /\ {CellAt(hmap, p)[1].node_idx : p \in Positions(hmap)}
               = 0..(Cardinality(Positions(hmap)) - 1)
        /\ \A p \in Positions(hmap) : \A q \in Positions(hmap) :
               p # q => CellAt(hmap, p)[1].node_idx # CellAt(hmap, q)[1].node_idx
        /\ PositionsOf(input, CharS) # {} =>
               start_loc.node_idx = Rank(input, LastOf(input, CharS))
        /\ PositionsOf(input, CharE) # {} =>
               end_loc.node_idx = Rank(input, LastOf(input, CharE))

\* an accepted input of several lines, the second line after a first line of two
\* chars, with an 'S' and an 'E' that are not the first cell
C13_Witness ==
    /\ pc = "to_graph"
    /\ Len(hmap) >= 2
    /\ Len(hmap[1]) = 2
    /\ Len(hmap[2]) >= 1
    /\ hmap[2][1][1].node_idx = 2
    /\ start_loc.node_idx >= 1
    /\ end_loc.node_idx >= 1
    /\ start_loc.node_idx # end_loc.node_idx

\* the node identifiers of the cells a step from the cell at p may enter
OutNeighbours(grid, p) ==
    {CellAt(grid, q)[1].node_idx :
        q \in {r \in Positions(grid) :
                  Neighbours4(p, r) /\ CellAt(grid, r)[2] - CellAt(grid, p)[2] <= 1}}

\* C14: the adjacency list to_graph returns for a HeightMap of read_heightmap has
\* exactly one entry per cell; the entry at list position i holds the outgoing
\* edges of the cell whose node identifier is i, which is the i-th cell in scan
\* order; every edge's target is an index of the list.
C14_OneEntryPerCell ==
    pc = "part_one" =>
        /\ Len(adj_list) = Cardinality(Positions(hmap))
        /\ \A p \in Positions(hmap) :
               /\ CellAt(hmap, p)[1].node_idx = Rank(hmap, p)
               /\ {e.node : e \in Range(adj_list[Rank(hmap, p) + 1])} = OutNeighbours(hmap, p)
        /\ \A n \in 1..Len(adj_list) : \A i \in 1..Len(adj_list[n]) :
               adj_list[n][i].node \in 0..(Len(adj_list) - 1)

\* a graph built from a grid with an 'S' and an 'E' whose entries differ: one
\* cell has a single edge, another has two
C14_Witness ==
    /\ pc = "part_one"
    /\ PositionsOf(input, CharS) # {}
    /\ PositionsOf(input, CharE) # {}
    /\ Len(adj_list) = 4
    /\ \E n \in 1..Len(adj_list) : Len(adj_list[n]) = 1
    /\ \E n \in 1..Len(adj_list) : Len(adj_list[n]) = 2

\* the node identifier and the elevation of the cell at a position
NodeAt(grid, p) == CellAt(grid, p)[1].node_idx
ElevationAt(grid, p) == CellAt(grid, p)[2]

\* the distance between two numbers
AbsDiff(a, b) == IF a >= b THEN a - b ELSE b - a

\* C28: in the adjacency list to_graph returns, for every pair of 4-adjacent
\* cells A and B at least one of the edges A -> B and B -> A is present; both
\* are present exactly when the elevations differ by at most 1; and an edge
\* A -> B is missing only when B is two or more above A.
C28_AdjacentPairsAreJoined ==
    pc = "part_one" =>
        \A p \in Positions(hmap) : \A q \in Positions(hmap) :
            Neighbours4(p, q) =>
                LET ab == HasEdge(adj_list, NodeAt(hmap, p), NodeAt(hmap, q))
                    ba == HasEdge(adj_list, NodeAt(hmap, q), NodeAt(hmap, p))
                IN  /\ ab \/ ba
                    /\ (ab /\ ba) <=> AbsDiff(ElevationAt(hmap, p), ElevationAt(hmap, q)) <= 1
                    /\ ~ab => ElevationAt(hmap, q) - ElevationAt(hmap, p) >= 2

\* a graph built from a grid with the end marker beside a lowest cell, joined
\* downhill only, and two neighbours of one elevation joined both ways
C28_Witness ==
    /\ pc = "part_one"
    /\ \E p \in Positions(hmap) : \E q \in Positions(hmap) :
           /\ Neighbours4(p, q)
           /\ CellAt(input, q) = CharE
           /\ ElevationAt(hmap, q) - ElevationAt(hmap, p) = 25
           /\ ~HasEdge(adj_list, NodeAt(hmap, p), NodeAt(hmap, q))
           /\ HasEdge(adj_list, NodeAt(hmap, q), NodeAt(hmap, p))
    /\ \E p \in Positions(hmap) : \E q \in Positions(hmap) :
           /\ Neighbours4(p, q)
           /\ ElevationAt(hmap, p) = ElevationAt(hmap, q)
           /\ HasEdge(adj_list, NodeAt(hmap, p), NodeAt(hmap, q))
           /\ HasEdge(adj_list, NodeAt(hmap, q), NodeAt(hmap, p))

\* a grid of at least one row and one column whose rows have one length
Rectangular(grid) ==
    /\ Len(grid) >= 1
    /\ Len(grid[1]) >= 1
    /\ \A r \in 1..Len(grid) : Len(grid[r]) = Len(grid[1])

\* the entries of an adjacency list are plain: at most four edges each, none
\* to the node itself, no two to the same node
PlainEntries(G) ==
    \A n \in 1..Len(G) :
        /\ Len(G[n]) <= 4
        /\ \A i \in 1..Len(G[n]) : G[n][i].node # n - 1
        /\ \A i \in 1..Len(G[n]) : \A j \in 1..Len(G[n]) : i # j => G[n][i].node # G[n][j].node

\* C26 (as claimed): for every rectangular grid of at least one row and one
\* column, grids of exactly one row or exactly one column included, to_graph
\* completes normally, without reading a cell outside the grid, and gives each
\* node at most four edges, none to itself and no two to the same neighbour.
C26_ToGraphOnEveryRectangle ==
    (pc \notin {"read", "to_graph"} /\ hmap # <<>> /\ Rectangular(hmap)) =>
        /\ pc # "panicked"
        /\ Len(adj_list) = Cardinality(Positions(hmap))
        /\ PlainEntries(adj_list)

-----------------------------------------------------------------------------
(* Properties of shortest_path on the lists to_graph builds (SpecSearch) *)

\* the number of States of the node n that were pushed so far: those extracted
\* and those still queued
PushedOf(n) ==
    Cardinality({i \in 1..Len(extracted) : extracted[i].position = n})
        + Cardinality({i \in 1..Len(heap) : heap[i].position = n})

\* C27: on an adjacency list whose edges all cost 1, as to_graph builds them,
\* each node is pushed at most once during a search: the first distance a node
\* receives is its final one (its breadth-first layer), the queue never holds
\* more States than there are nodes, no extracted State is stale, and every cost
\* queued or returned is at most the number of nodes less one, so cost +
\* edge.cost stays far below usize::MAX.
C27_PushedAtMostOnce ==
    pc \in {"sp_loop", "returned"} =>
        /\ \A n \in Nodes : PushedOf(n) <= 1
        /\ \A n \in Nodes : ~Unvisited(n) => Some(dist[n + 1]) = BFSDist(adj_list, sp_start, n)
        /\ Len(heap) <= Len(adj_list)
        /\ \A i \in 1..Len(extracted) : ~Stale(extracted[i])
        /\ \A i \in 1..Len(heap) : heap[i].cost <= Len(adj_list) - 1
        /\ \A i \in 1..Len(extracted) : extracted[i].cost + 1 <= Len(adj_list)
        /\ is_some(ret) => unwrap(ret) <= Len(adj_list) - 1

\* a search on the graph of a grid returned a distance of two or more, and
\* some node has edges from two nodes that were both extracted: the second of
\* them found the node's distance in the table and pushed nothing
C27_Witness ==
    /\ pc = "returned"
    /\ adj_list \in GridGraphs
    /\ is_some(ret)
    /\ unwrap(ret) >= 2
    /\ \E n \in Nodes :
           /\ n # sp_start
           /\ Cardinality({m \in Nodes : WasSettled(m) /\ m # n /\ HasEdge(adj_list, m, n)}) >= 2
           /\ PushedOf(n) = 1

-----------------------------------------------------------------------------
(* Properties of the entry points on the sample map (SpecSample) *)

\* C4: on the 5 x 8 sample map the search from 'S' to 'E' returns 31, and the
\* minimum over the 'a'-elevation cells of the searches to 'E' is 29; no entry
\* point fails.
C4_SampleAnswers ==
    /\ pc \notin {"panicked", "exit_err"}
    /\ pc # "read" => (Len(hmap) = 5 /\ \A r \in 1..5 : Len(hmap[r]) = 8)
    /\ pc = "part_one_ret" => ret = Some(31)
    /\ (pc = "part_two" /\ it = Len(start_locs)) => p2 = Some(29)

\* main has printed both parts
C4_Witness ==
    /\ driver = "main"
    /\ pc = "done"
    /\ p1 = Some(31)
    /\ p2 = Some(29)

-----------------------------------------------------------------------------
(* Properties of the multi-source query (Spec) *)

\* the Locations of the cells of a grid at elevation h
LocationsAt(grid, h) == {CellAt(grid, p)[1] : p \in {q \in Positions(grid) : CellAt(grid, q)[2] = h}}

\* the breadth-first distances to the target of the first n candidates that reach it
ReachingDistances(n) ==
    {unwrap(BFSDist(adj_list, start_locs[i].node_idx, end_loc.node_idx)) :
        i \in {j \in 1..n : PathExists(adj_list, start_locs[j].node_idx, end_loc.node_idx)}}

\* C5: the candidates of the multi-source query are exactly the cells at the
\* minimum elevation of the data model, the elevation of 'a' that the start marker
\* gets, each once; after any number of candidates the running result is the least
\* distance to the target among those of them that reach it, so the final result
\* is the minimum over all candidates that reach the target, and a candidate
\* without a path contributes nothing.
C5_MultiSourceIsMinimum ==
    pc = "part_two" =>
        /\ Range(start_locs) = LocationsAt(hmap, b_a)
        /\ Len(start_locs) = Cardinality(LocationsAt(hmap, b_a))
        /\ p2 = MinOfSet(ReachingDistances(it))

\* a finished reduction over candidates of which one has no path to the target
\* and two reach it at different distances
C5_Witness ==
    /\ pc = "part_two"
    /\ it = Len(start_locs)
    /\ is_some(p2)
    /\ \E i \in 1..it : ~PathExists(adj_list, start_locs[i].node_idx, end_loc.node_idx)
    /\ Cardinality(ReachingDistances(it)) >= 2

\* C6: on a grid with an 'S' that reaches 'E', the result of the multi-source
\* query is at most the distance from 'S' to 'E': at most p1 in main, and at most
\* the breadth-first distance from the start to the end under either entry point.
C6_MultiSourceAtMostPartOne ==
    (pc = "part_two" /\ it = Len(start_locs) /\ PositionsOf(input, CharS) # {}
        /\ PathExists(adj_list, start_loc.node_idx, end_loc.node_idx))
        => /\ is_some(p2)
           /\ unwrap(p2) <= unwrap(BFSDist(adj_list, start_loc.node_idx, end_loc.node_idx))
           /\ driver = "main" => (is_some(p1) /\ unwrap(p2) <= unwrap(p1))

\* main has both results on an input whose start is not the sample's: the
\* multi-source result is strictly smaller than part one's
C6_Witness ==
    /\ driver = "main"
    /\ pc = "part_two"
    /\ it = Len(start_locs)
    /\ PositionsOf(input, CharS) # {}
    /\ input # SampleInput
    /\ is_some(p1)
    /\ is_some(p2)
    /\ unwrap(p2) < unwrap(p1)

\* the candidates of the multi-source query that have a path to the target
Reaching == {i \in 1..Len(start_locs) :
                PathExists(adj_list, start_locs[i].node_idx, end_loc.node_idx)}

\* the multi-source query has failed: .min().unwrap() panicked
QueryFailed ==
    /\ pc = "panicked"
    /\ is_some(fail)
    /\ unwrap(fail).msg = "called Option::unwrap() on a None value"

\* C17: the multi-source query fails exactly when no candidate has a path to the
\* target, the empty candidate set included: a candidate without a path is
\* dropped and fails nothing, the reduction is None after the last candidate
\* exactly when none reached the target, a failed query had no reaching
\* candidate, and a query that produced its result had one.
C17_FailsIffNoneReaches ==
    /\ pc \in {"part_two", "part_two_ret"} => is_none(fail)
    /\ (pc = "part_two" /\ it = Len(start_locs)) => (is_none(p2) <=> Reaching = {})
    /\ QueryFailed => (Reaching = {} /\ it = Len(start_locs))
    /\ (pc = "done" /\ driver \in {"main", "test_part_two"}) => (Reaching # {} /\ is_some(p2))

\* the query failed on several candidates, none of which reaches the target
C17_Witness ==
    /\ QueryFailed
    /\ Len(start_locs) >= 2
    /\ it = Len(start_locs)
    /\ Reaching = {}

\* main has stopped with the error of part one
NoPathError ==
    /\ pc = "exit_err"
    /\ is_some(fail)
    /\ unwrap(fail).msg = "No path found between"

\* C29 (as claimed): in main the search from start to end is made before the
\* multi-source reduction; when it finds no path, main stops with the error
\* that names start and end, before anything is printed and before any
\* candidate is looked for; and on every input read_heightmap accepts, once the
\* first result is there the second one follows: the reduction never ends with
\* every candidate unreachable, so the unwrap of its minimum does not fail.
C29_SecondOutputFollowsFirst ==
    driver = "main" =>
        /\ pc \in {"find_targets", "part_two", "part_two_ret"} => is_some(p1)
        /\ is_none(p1) => (start_locs = <<>> /\ is_none(p2))
        /\ NoPathError =>
               /\ is_none(p1)
               /\ unwrap(fail).tag = "Err"
               /\ unwrap(fail).arg = <<start_loc, end_loc>>
        /\ is_some(p1) => ~QueryFailed

-----------------------------------------------------------------------------
(* Properties of searches between the cells of a grid (SpecCells) *)

\* the position of the cell of a grid that has the node identifier n
CellOf(grid, n) == CHOOSE p \in Positions(grid) : CellAt(grid, p)[1].node_idx = n

\* R is an enclosure of the grid: each of its cells is at least two units higher
\* than every neighbour outside R, so that no step onto R from outside is a
\* climb of at most one
Encloses(grid, R) ==
    \A q \in R : \A p \in Positions(grid) \ R :
        Neighbours4(p, q) => CellAt(grid, q)[2] - CellAt(grid, p)[2] >= 2

\* the cell of node t lies in an enclosure that leaves the cell of node s outside
Enclosed(grid, s, t) ==
    \E R \in SUBSET Positions(grid) :
        /\ CellOf(grid, t) \in R
        /\ CellOf(grid, s) \notin R
        /\ Encloses(grid, R)

\* C18: on a grid where the target cell lies inside an enclosure whose cells
\* are at least two units higher than every cell from which they could be
\* approached, the search from a start outside the enclosure, on the graph
\* to_graph builds, returns None and no distance.
C18_EnclosedIsUnreachable ==
    (pc = "returned" /\ Enclosed(hmap, sp_start, sp_end)) => is_none(ret)

\* a search that explored a second cell and returned None for a target that is
\* lower than the wall around it: the target is as low as the start, and each
\* of its neighbours is two units higher than the start
C18_Witness ==
    /\ pc = "returned"
    /\ is_none(ret)
    /\ Enclosed(hmap, sp_start, sp_end)
    /\ CellAt(hmap, CellOf(hmap, sp_end))[2] = CellAt(hmap, CellOf(hmap, sp_start))[2]
    /\ \A q \in Positions(hmap) :
           Neighbours4(q, CellOf(hmap, sp_end))
               => CellAt(hmap, q)[2] = CellAt(hmap, CellOf(hmap, sp_start))[2] + 2
    /\ \E n \in 0..(Len(adj_list) - 1) : n # sp_start /\ dist[n + 1] < usize_MAX

-----------------------------------------------------------------------------
(* Properties of the crate moves of day5 (SpecCrates) *)

\* the number of copies of the crate c on a stack, and on the stacks from the i-th on
Occurrences(stack, c) == Cardinality({i \in 1..Len(stack) : stack[i] = c})

RECURSIVE CountOn(_, _, _)
CountOn(stacks, c, i) ==
    IF i > Len(stacks) THEN 0 ELSE Occurrences(stacks[i], c) + CountOn(stacks, c, i + 1)

\* two arrangements hold the same multiset of crates
SameCrates(a, b) == \A c \in CrateSet(MaxCrates + 1) : CountOn(a, c, 1) = CountOn(b, c, 1)

\* the count of the move does not exceed the height of its source stack
Fits(m, stacks) == InStacks(stacks, m.from) /\ m.num <= Len(stacks[m.from])

\* the top n crates of a stack, and the crates below them
Top(stack, n) == SubSeq(stack, Len(stack) - n + 1, Len(stack))
Rest(stack, n) == SubSeq(stack, 1, Len(stack) - n)

\* the move m has taken the top m.num crates off its source and put them, in the
\* order arrived, on its destination; the crates below them and all other
\* stacks are as before, and so is the multiset of crates
Moved(m, before, after, arrived) ==
    IF m.num = 0
    THEN after = before
    ELSE /\ InStacks(before, m.to)
         /\ Len(after) = Len(before)
         /\ SameCrates(before, after)
         /\ IF m.from = m.to
            THEN after[m.from] = Rest(before[m.from], m.num) \o arrived
            ELSE /\ after[m.from] = Rest(before[m.from], m.num)
                 /\ after[m.to] = before[m.to] \o arrived
         /\ \A i \in 1..Len(before) : i \notin {m.from, m.to} => after[i] = before[i]

\* the move the next step of the running loop executes
NextMove == moves[m_idx + 1]

At9000 == pc = "p1_moves" /\ m_idx < Len(moves)
At9001 == pc = "p2_moves" /\ m_idx < Len(moves)

\* the move is one between stacks of the arrangement (its labels name stacks)
\* and its count does not exceed the height of its source stack
FitsBetweenStacks(m, stacks) == Fits(m, stacks) /\ InStacks(stacks, m.to)

\* C19 (as claimed): every step that executes a move whose count does not exceed
\* the height of its source stack conserves the multiset of crates and touches
\* only source and destination: under execute_9000 the top num crates arrive on
\* the destination in reversed order, under execute_9001 in their original order.
C19_MoveConservesCrates ==
    [][/\ (At9000 /\ FitsBetweenStacks(NextMove, stacks_p1))
            => Moved(NextMove, stacks_p1, stacks_p1',
                     Reverse(Top(stacks_p1[NextMove.from], NextMove.num)))
       /\ (At9001 /\ FitsBetweenStacks(NextMove, stacks_p2))
            => Moved(NextMove, stacks_p2, stacks_p2',
                     Top(stacks_p2[NextMove.from], NextMove.num))]_vars

\* C19 (amended): the same for every such move whose source and destination are
\* two different stacks, and the move succeeds; a move from a stack to itself
\* leaves every stack as it is under both operations, so under execute_9000
\* nothing arrives reversed.
C19_ValidMoveConservesCrates ==
    [][/\ (At9000 /\ FitsBetweenStacks(NextMove, stacks_p1) /\ NextMove.from # NextMove.to)
            => /\ Moved(NextMove, stacks_p1, stacks_p1',
                        Reverse(Top(stacks_p1[NextMove.from], NextMove.num)))
               /\ pc' = "p1_moves"
       /\ (At9001 /\ FitsBetweenStacks(NextMove, stacks_p2) /\ NextMove.from # NextMove.to)
            => /\ Moved(NextMove, stacks_p2, stacks_p2',
                        Top(stacks_p2[NextMove.from], NextMove.num))
               /\ pc' = "p2_moves"
       /\ (At9000 /\ FitsBetweenStacks(NextMove, stacks_p1) /\ NextMove.from = NextMove.to)
            => (stacks_p1' = stacks_p1 /\ pc' = "p1_moves")
       /\ (At9001 /\ FitsBetweenStacks(NextMove, stacks_p2) /\ NextMove.from = NextMove.to)
            => (stacks_p2' = stacks_p2 /\ pc' = "p2_moves")]_vars

\* both loops have run one move of two or more crates between two different
\* stacks while a third stack held a crate: the crates arrived reversed under
\* execute_9000 and in their order under execute_9001
C19_Witness ==
    /\ pc = "done"
    /\ Len(moves) = 1
    /\ moves[1].num >= 2
    /\ moves[1].from # moves[1].to
    /\ stacks_p1[moves[1].to] # stacks_p2[moves[1].to]
    /\ Top(stacks_p1[moves[1].to], 2) = Reverse(Top(stacks_p2[moves[1].to], 2))
    /\ \E i \in 1..3 : i \notin {moves[1].from, moves[1].to} /\ stacks_p1[i] # <<>>
    /\ stacks_p1[moves[1].from] = stacks_p2[moves[1].from]

-----------------------------------------------------------------------------
(* Properties of the rope of day9 (SpecRope) *)

Sign(n) == IF n > 0 THEN 1 ELSE IF n < 0 THEN -1 ELSE 0

\* two Locations touch: they are at most one cell apart in both axes
Touching(a, b) == AbsDiff(a.x, b.x) <= 1 /\ AbsDiff(a.y, b.y) <= 1

\* the rule of the puzzle: a knot that no longer touches its predecessor moves
\* one cell towards it in every axis in which they differ
Follow(hd, tl) ==
    IF Touching(hd, tl) THEN tl ELSE Location(tl.x + Sign(hd.x - tl.x), tl.y + Sign(hd.y - tl.y))

RECURSIVE FollowFrom(_, _)
\* the knots from the i-th on follow their predecessors, one after the other
FollowFrom(rope, i) ==
    IF i > Len(rope)
    THEN rope
    ELSE FollowFrom([rope EXCEPT ![i] = Follow(rope[i - 1], rope[i])], i + 1)

\* the head of a rope after one step in a direction
Stepped(hd, dir) ==
    IF dir = "R" THEN Location(hd.x + 1, hd.y)
    ELSE IF dir = "L" THEN Location(hd.x - 1, hd.y)
    ELSE IF dir = "U" THEN Location(hd.x, hd.y + 1)
    ELSE Location(hd.x, hd.y - 1)

RECURSIVE RopeAfter(_, _)
\* a rope of n knots after the head steps ss, by the rule of the puzzle
RopeAfter(n, ss) ==
    IF ss = <<>>
    THEN [i \in 1..n |-> Location(0, 0)]
    ELSE LET before == RopeAfter(n, SubSeq(ss, 1, Len(ss) - 1))
         IN  FollowFrom([before EXCEPT ![1] = Stepped(before[1], ss[Len(ss)])], 2)

\* where the last knot of a rope of n knots was at the end of each step of ss
TailTrail(n, ss) == {RopeAfter(n, SubSeq(ss, 1, k))[n] : k \in 1..Len(ss)}

\* C30: starting with all knots at the origin, after every single head step
\* (advance_right, advance_left, advance_up, advance_down) every knot is within
\* one cell of its predecessor in both axes, every knot has moved by at most
\* one cell per axis during the step, and tl_loc_set is the set of positions
\* of the last knot at the ends of the head steps made so far: the step adds
\* the last knot's new position and nothing else, and the set is the trail of
\* the last knot under the rule of the puzzle.
C30_RopeStaysConnected ==
    [][pc = "rope" =>
           /\ Len(locs') = Len(locs)
           /\ \A i \in 1..(Len(locs) - 1) : Touching(locs'[i], locs'[i + 1])
           /\ \A i \in 1..Len(locs) : Touching(locs[i], locs'[i])
           /\ tl_loc_set' = tl_loc_set \cup {locs'[Len(locs)]}
           /\ tl_loc_set' = TailTrail(Len(locs), steps')
           /\ locs' = RopeAfter(Len(locs), steps')]_vars

\* a rope of three knots whose last knot has just moved diagonally towards a
\* predecessor that was two cells away in both axes, and has been at two
\* places or more
C30_Witness ==
    /\ pc = "rope"
    /\ Len(locs) = 3
    /\ steps # <<>>
    /\ LET before == RopeAfter(3, SubSeq(steps, 1, Len(steps) - 1))
       IN  /\ AbsDiff(locs[2].x, before[3].x) = 2
           /\ AbsDiff(locs[2].y, before[3].y) = 2
           /\ locs[3].x # before[3].x
           /\ locs[3].y # before[3].y
    /\ Cardinality(tl_loc_set) >= 2

====
